---- MODULE Spec2Model ----
(***************************************************************************)
(* Zabbix AI Assistant (src/streamlit_app.py): the sanitizer, the command  *)
(* cache, the remote classification call with its local fallback matcher,  *)
(* and the message turn that ties them together.                           *)
(*                                                                         *)
(* A text is a sequence of characters.  ASCII characters stand for         *)
(* themselves, one per element.  A Japanese keyword of the source is one   *)
(* element (a run of Unicode letters that no pattern of the source can     *)
(* split: each pattern either names the keyword whole or consumes it as    *)
(* \w / \S characters).                                                    *)
(***************************************************************************)
EXTENDS Integers, Sequences, FiniteSets, TLC

Min(S) == CHOOSE x \in S : \A y \in S : x <= y

UpperSeq ==
    <<"A", "B", "C", "D", "E", "F", "G", "H", "I", "J", "K", "L", "M", "N", "O", "P", "Q", "R", "S", "T", "U", "V", "W", "X", "Y", "Z">>

LowerSeq ==
    <<"a", "b", "c", "d", "e", "f", "g", "h", "i", "j", "k", "l", "m", "n", "o", "p", "q", "r", "s", "t", "u", "v", "w", "x", "y", "z">>

DigitSeq ==
    <<"0", "1", "2", "3", "4", "5", "6", "7", "8", "9">>

Upper == {UpperSeq[i] : i \in 1..26}

LowerAscii == {LowerSeq[i] : i \in 1..26}

Digits == {DigitSeq[i] : i \in 1..10}

\* Japanese words of the source, each one element of a text
Kana ==
    {"ja_topology", "ja_settei", "ja_kanshi", "ja_maintenance", "ja_memory", "ja_disk",
     "ja_metrics", "ja_joutai", "ja_jouhou", "ja_alert", "ja_shougai", "ja_mondai", "ja_graph",
     "ja_suii", "ja_trend", "ja_server", "ja_ika", "ja_miman", "ja_ijou", "ja_jikan", "ja_fun",
     "ja_password", "ja_anshou", "ja_wo", "ja_no", "ja_ni", "ja_koe", "ja_oshiete",
     "ja_de"}

\* \s
Space == {" "}

Quote == {"\"", "'"}

Punct == {"=", ":", "ja_colon", "-", "_", "*", "/", "+", ".", "%", "{", "}"} \cup Quote

\* \w (Unicode letters, digits and underscore)
Word == Upper \cup LowerAscii \cup Digits \cup Kana \cup {"_"}

\* [A-Za-z0-9]
AsciiAlnum == Upper \cup LowerAscii \cup Digits

Chars == Word \cup Space \cup (Punct \ {"_"})

\* \S, which [\w\S] and [^\s] both amount to
NonSpace == Chars \ Space

\* str.lower() on one character
LowerChar(c) ==
    IF c \in Upper THEN LowerSeq[CHOOSE i \in 1..26 : UpperSeq[i] = c] ELSE c

\* str.lower()
Lower(s) == [i \in 1..Len(s) |-> LowerChar(s[i])]

\* str.strip()
Strip(s) ==
    LET keep == {i \in 1..Len(s) : s[i] \notin Space}
    IN  IF keep = {} THEN <<>>
        ELSE SubSeq(s, Min(keep), CHOOSE x \in keep : \A y \in keep : y <= x)

\* needle in haystack (Python's substring test)
Contains(s, lit) ==
    \E i \in 1..(Len(s) - Len(lit) + 1) :
        \A k \in 1..Len(lit) : s[i + k - 1] = lit[k]

\* the literal lit (given in lower case) stands at position i, ignoring case
LitAt(s, i, lit) ==
    /\ i >= 1
    /\ i + Len(lit) - 1 <= Len(s)
    /\ \A k \in 1..Len(lit) : LowerChar(s[i + k - 1]) = lit[k]

\* last index of the longest run of characters of class C that starts at i
\* (i - 1 when s[i] is not in C): a greedy C*
RunEnd(s, i, C) ==
    LET stop == {k \in i..Len(s) : s[k] \notin C}
    IN  IF stop = {} THEN (IF i > Len(s) THEN i - 1 ELSE Len(s))
        ELSE Min(stop) - 1

SENSITIVE_PATTERNS ==
  <<
    [kind |-> "assign",
     alts |-> <<<<"p", "a", "s", "s", "w", "o", "r", "d">>, <<"p", "a", "s", "s", "w", "d">>, <<"p", "a", "s", "s">>, <<"p", "w">>>>,
     eqs |-> {"=", ":"}, val |-> NonSpace,
     quote |-> TRUE, capsp |-> FALSE, groups |-> <<>>,
     usecap |-> TRUE, suffix |-> <<"=", "*", "*", "*", "R", "E", "D", "A", "C", "T", "E", "D", "*", "*", "*">>,
     pat_password |-> TRUE, pat_api |-> FALSE, repl_card |-> FALSE, repl_ssn |-> FALSE, repl_mynumber |-> FALSE, pat_aws |-> FALSE, repl_private |-> FALSE, pat_db |-> FALSE],
    [kind |-> "assign",
     alts |-> <<<<"ja_password">>, <<"ja_anshou">>>>,
     eqs |-> {"=", ":", "ja_colon"}, val |-> NonSpace,
     quote |-> FALSE, capsp |-> FALSE, groups |-> <<>>,
     usecap |-> TRUE, suffix |-> <<"=", "*", "*", "*", "R", "E", "D", "A", "C", "T", "E", "D", "*", "*", "*">>,
     pat_password |-> TRUE, pat_api |-> FALSE, repl_card |-> FALSE, repl_ssn |-> FALSE, repl_mynumber |-> FALSE, pat_aws |-> FALSE, repl_private |-> FALSE, pat_db |-> FALSE],
    [kind |-> "assign",
     alts |-> <<<<"a", "p", "i", "_", "k", "e", "y">>, <<"a", "p", "i", "-", "k", "e", "y">>, <<"a", "p", "i", "k", "e", "y">>, <<"s", "e", "c", "r", "e", "t", "_", "k", "e", "y">>, <<"s", "e", "c", "r", "e", "t", "-", "k", "e", "y">>, <<"s", "e", "c", "r", "e", "t", "k", "e", "y">>, <<"a", "c", "c", "e", "s", "s", "_", "k", "e", "y">>, <<"a", "c", "c", "e", "s", "s", "-", "k", "e", "y">>, <<"a", "c", "c", "e", "s", "s", "k", "e", "y">>>>,
     eqs |-> {"=", ":"}, val |-> Word \cup {"-"},
     quote |-> TRUE, capsp |-> FALSE, groups |-> <<>>,
     usecap |-> TRUE, suffix |-> <<"=", "*", "*", "*", "R", "E", "D", "A", "C", "T", "E", "D", "*", "*", "*">>,
     pat_password |-> FALSE, pat_api |-> TRUE, repl_card |-> FALSE, repl_ssn |-> FALSE, repl_mynumber |-> FALSE, pat_aws |-> FALSE, repl_private |-> FALSE, pat_db |-> FALSE],
    [kind |-> "spaced",
     alts |-> <<<<"b", "e", "a", "r", "e", "r">>, <<"t", "o", "k", "e", "n">>, <<"j", "w", "t">>>>,
     eqs |-> {}, val |-> Word \cup {"-", "."},
     quote |-> FALSE, capsp |-> FALSE, groups |-> <<>>,
     usecap |-> TRUE, suffix |-> <<" ", "*", "*", "*", "R", "E", "D", "A", "C", "T", "E", "D", "*", "*", "*">>,
     pat_password |-> FALSE, pat_api |-> TRUE, repl_card |-> FALSE, repl_ssn |-> FALSE, repl_mynumber |-> FALSE, pat_aws |-> FALSE, repl_private |-> FALSE, pat_db |-> FALSE],
    [kind |-> "assign",
     alts |-> <<<<"a", "u", "t", "h">>, <<"c", "r", "e", "d", "e", "n", "t", "i", "a", "l">>, <<"s", "e", "c", "r", "e", "t">>>>,
     eqs |-> {"=", ":"}, val |-> NonSpace,
     quote |-> TRUE, capsp |-> FALSE, groups |-> <<>>,
     usecap |-> TRUE, suffix |-> <<"=", "*", "*", "*", "R", "E", "D", "A", "C", "T", "E", "D", "*", "*", "*">>,
     pat_password |-> FALSE, pat_api |-> TRUE, repl_card |-> FALSE, repl_ssn |-> FALSE, repl_mynumber |-> FALSE, pat_aws |-> FALSE, repl_private |-> FALSE, pat_db |-> FALSE],
    [kind |-> "digits",
     alts |-> <<>>,
     eqs |-> {}, val |-> {},
     quote |-> FALSE, capsp |-> FALSE, groups |-> <<4, 4, 4, 4>>,
     usecap |-> FALSE, suffix |-> <<"*", "*", "*", "C", "A", "R", "D", "-", "R", "E", "D", "A", "C", "T", "E", "D", "*", "*", "*">>,
     pat_password |-> FALSE, pat_api |-> FALSE, repl_card |-> TRUE, repl_ssn |-> FALSE, repl_mynumber |-> FALSE, pat_aws |-> FALSE, repl_private |-> FALSE, pat_db |-> FALSE],
    [kind |-> "digits",
     alts |-> <<>>,
     eqs |-> {}, val |-> {},
     quote |-> FALSE, capsp |-> FALSE, groups |-> <<3, 2, 4>>,
     usecap |-> FALSE, suffix |-> <<"*", "*", "*", "S", "S", "N", "-", "R", "E", "D", "A", "C", "T", "E", "D", "*", "*", "*">>,
     pat_password |-> FALSE, pat_api |-> FALSE, repl_card |-> FALSE, repl_ssn |-> TRUE, repl_mynumber |-> FALSE, pat_aws |-> FALSE, repl_private |-> FALSE, pat_db |-> FALSE],
    [kind |-> "digits",
     alts |-> <<>>,
     eqs |-> {}, val |-> {},
     quote |-> FALSE, capsp |-> FALSE, groups |-> <<4, 4, 4>>,
     usecap |-> FALSE, suffix |-> <<"*", "*", "*", "M", "Y", "N", "U", "M", "B", "E", "R", "-", "R", "E", "D", "A", "C", "T", "E", "D", "*", "*", "*">>,
     pat_password |-> FALSE, pat_api |-> FALSE, repl_card |-> FALSE, repl_ssn |-> FALSE, repl_mynumber |-> TRUE, pat_aws |-> FALSE, repl_private |-> FALSE, pat_db |-> FALSE],
    [kind |-> "spaced",
     alts |-> <<<<"b", "a", "s", "i", "c">>>>,
     eqs |-> {}, val |-> AsciiAlnum \cup {"+", "/", "="},
     quote |-> FALSE, capsp |-> TRUE, groups |-> <<>>,
     usecap |-> TRUE, suffix |-> <<"*", "*", "*", "R", "E", "D", "A", "C", "T", "E", "D", "*", "*", "*">>,
     pat_password |-> FALSE, pat_api |-> FALSE, repl_card |-> FALSE, repl_ssn |-> FALSE, repl_mynumber |-> FALSE, pat_aws |-> FALSE, repl_private |-> FALSE, pat_db |-> FALSE],
    [kind |-> "awskey",
     alts |-> <<<<"a", "k", "i", "a">>, <<"a", "b", "i", "a">>, <<"a", "c", "c", "a">>, <<"a", "s", "i", "a">>>>,
     eqs |-> {}, val |-> AsciiAlnum,
     quote |-> FALSE, capsp |-> FALSE, groups |-> <<16>>,
     usecap |-> FALSE, suffix |-> <<"*", "*", "*", "A", "W", "S", "-", "K", "E", "Y", "-", "R", "E", "D", "A", "C", "T", "E", "D", "*", "*", "*">>,
     pat_password |-> FALSE, pat_api |-> FALSE, repl_card |-> FALSE, repl_ssn |-> FALSE, repl_mynumber |-> FALSE, pat_aws |-> FALSE, repl_private |-> FALSE, pat_db |-> FALSE],
    [kind |-> "assign",
     alts |-> <<<<"a", "w", "s", "_", "s", "e", "c", "r", "e", "t", "_", "a", "c", "c", "e", "s", "s", "_", "k", "e", "y">>, <<"a", "w", "s", "_", "s", "e", "c", "r", "e", "t", "_", "a", "c", "c", "e", "s", "s", "-", "k", "e", "y">>, <<"a", "w", "s", "_", "s", "e", "c", "r", "e", "t", "_", "a", "c", "c", "e", "s", "s", "k", "e", "y">>, <<"a", "w", "s", "_", "s", "e", "c", "r", "e", "t", "-", "a", "c", "c", "e", "s", "s", "_", "k", "e", "y">>, <<"a", "w", "s", "_", "s", "e", "c", "r", "e", "t", "-", "a", "c", "c", "e", "s", "s", "-", "k", "e", "y">>, <<"a", "w", "s", "_", "s", "e", "c", "r", "e", "t", "-", "a", "c", "c", "e", "s", "s", "k", "e", "y">>, <<"a", "w", "s", "_", "s", "e", "c", "r", "e", "t", "a", "c", "c", "e", "s", "s", "_", "k", "e", "y">>, <<"a", "w", "s", "_", "s", "e", "c", "r", "e", "t", "a", "c", "c", "e", "s", "s", "-", "k", "e", "y">>, <<"a", "w", "s", "_", "s", "e", "c", "r", "e", "t", "a", "c", "c", "e", "s", "s", "k", "e", "y">>, <<"a", "w", "s", "-", "s", "e", "c", "r", "e", "t", "_", "a", "c", "c", "e", "s", "s", "_", "k", "e", "y">>, <<"a", "w", "s", "-", "s", "e", "c", "r", "e", "t", "_", "a", "c", "c", "e", "s", "s", "-", "k", "e", "y">>, <<"a", "w", "s", "-", "s", "e", "c", "r", "e", "t", "_", "a", "c", "c", "e", "s", "s", "k", "e", "y">>, <<"a", "w", "s", "-", "s", "e", "c", "r", "e", "t", "-", "a", "c", "c", "e", "s", "s", "_", "k", "e", "y">>, <<"a", "w", "s", "-", "s", "e", "c", "r", "e", "t", "-", "a", "c", "c", "e", "s", "s", "-", "k", "e", "y">>, <<"a", "w", "s", "-", "s", "e", "c", "r", "e", "t", "-", "a", "c", "c", "e", "s", "s", "k", "e", "y">>, <<"a", "w", "s", "-", "s", "e", "c", "r", "e", "t", "a", "c", "c", "e", "s", "s", "_", "k", "e", "y">>, <<"a", "w", "s", "-", "s", "e", "c", "r", "e", "t", "a", "c", "c", "e", "s", "s", "-", "k", "e", "y">>, <<"a", "w", "s", "-", "s", "e", "c", "r", "e", "t", "a", "c", "c", "e", "s", "s", "k", "e", "y">>, <<"a", "w", "s", "s", "e", "c", "r", "e", "t", "_", "a", "c", "c", "e", "s", "s", "_", "k", "e", "y">>, <<"a", "w", "s", "s", "e", "c", "r", "e", "t", "_", "a", "c", "c", "e", "s", "s", "-", "k", "e", "y">>, <<"a", "w", "s", "s", "e", "c", "r", "e", "t", "_", "a", "c", "c", "e", "s", "s", "k", "e", "y">>, <<"a", "w", "s", "s", "e", "c", "r", "e", "t", "-", "a", "c", "c", "e", "s", "s", "_", "k", "e", "y">>, <<"a", "w", "s", "s", "e", "c", "r", "e", "t", "-", "a", "c", "c", "e", "s", "s", "-", "k", "e", "y">>, <<"a", "w", "s", "s", "e", "c", "r", "e", "t", "-", "a", "c", "c", "e", "s", "s", "k", "e", "y">>, <<"a", "w", "s", "s", "e", "c", "r", "e", "t", "a", "c", "c", "e", "s", "s", "_", "k", "e", "y">>, <<"a", "w", "s", "s", "e", "c", "r", "e", "t", "a", "c", "c", "e", "s", "s", "-", "k", "e", "y">>, <<"a", "w", "s", "s", "e", "c", "r", "e", "t", "a", "c", "c", "e", "s", "s", "k", "e", "y">>>>,
     eqs |-> {"=", ":"}, val |-> Word \cup {"/", "+", "="},
     quote |-> FALSE, capsp |-> FALSE, groups |-> <<>>,
     usecap |-> TRUE, suffix |-> <<"=", "*", "*", "*", "R", "E", "D", "A", "C", "T", "E", "D", "*", "*", "*">>,
     pat_password |-> FALSE, pat_api |-> TRUE, repl_card |-> FALSE, repl_ssn |-> FALSE, repl_mynumber |-> FALSE, pat_aws |-> TRUE, repl_private |-> FALSE, pat_db |-> FALSE],
    [kind |-> "pem",
     alts |-> <<>>,
     eqs |-> {}, val |-> {},
     quote |-> FALSE, capsp |-> FALSE, groups |-> <<>>,
     usecap |-> FALSE, suffix |-> <<"*", "*", "*", "P", "R", "I", "V", "A", "T", "E", "-", "K", "E", "Y", "-", "R", "E", "D", "A", "C", "T", "E", "D", "*", "*", "*">>,
     pat_password |-> FALSE, pat_api |-> FALSE, repl_card |-> FALSE, repl_ssn |-> FALSE, repl_mynumber |-> FALSE, pat_aws |-> FALSE, repl_private |-> TRUE, pat_db |-> FALSE],
    [kind |-> "uri",
     alts |-> <<<<"m", "y", "s", "q", "l">>, <<"p", "o", "s", "t", "g", "r", "e", "s">>, <<"m", "o", "n", "g", "o", "d", "b">>, <<"r", "e", "d", "i", "s">>>>,
     eqs |-> {}, val |-> NonSpace,
     quote |-> FALSE, capsp |-> FALSE, groups |-> <<>>,
     usecap |-> TRUE, suffix |-> <<":", "/", "/", "*", "*", "*", "R", "E", "D", "A", "C", "T", "E", "D", "*", "*", "*">>,
     pat_password |-> FALSE, pat_api |-> FALSE, repl_card |-> FALSE, repl_ssn |-> FALSE, repl_mynumber |-> FALSE, pat_aws |-> FALSE, repl_private |-> FALSE, pat_db |-> TRUE]
  >>

(***************************************************************************)
(* Matching one pattern at one position.  Each operator gives              *)
(* <<end, caplen>>: the index of the last character of the match that      *)
(* starts at i and the length of group 1, or <<0, 0>> when the pattern     *)
(* does not match at i.                                                    *)
(***************************************************************************)

\* (kw)\s*[=:]\s*["']?VAL+["']?   for one alternative kw
AssignAlt(s, i, lit, r) ==
    IF ~LitAt(s, i, lit) THEN 0
    ELSE LET p == RunEnd(s, i + Len(lit), Space) + 1
         IN  IF p > Len(s) \/ s[p] \notin r.eqs THEN 0
             ELSE LET q  == RunEnd(s, p + 1, Space) + 1
                      q2 == IF /\ r.quote
                               /\ q <= Len(s)
                               /\ s[q] \in Quote
                               /\ RunEnd(s, q + 1, r.val) >= q + 1
                            THEN q + 1 ELSE q
                      e  == RunEnd(s, q2, r.val)
                  IN  IF e < q2 THEN 0
                      ELSE IF r.quote /\ e + 1 <= Len(s) /\ s[e + 1] \in Quote
                           THEN e + 1 ELSE e

\* (kw)\s+VAL+   and   (kw\s+)VAL+
SpacedAlt(s, i, lit, r) ==
    IF ~LitAt(s, i, lit) THEN 0
    ELSE LET p == RunEnd(s, i + Len(lit), Space) + 1
             e == RunEnd(s, p, r.val)
         IN  IF p > i + Len(lit) /\ e >= p THEN e ELSE 0

\* (kw)://[^\s]+
UriAlt(s, i, lit, r) ==
    IF ~(LitAt(s, i, lit) /\ LitAt(s, i + Len(lit), <<":", "/", "/">>)) THEN 0
    ELSE LET p == i + Len(lit) + 3
             e == RunEnd(s, p, r.val)
         IN  IF e >= p THEN e ELSE 0

\* (kw)[A-Z0-9]{16}
AwsAlt(s, i, lit, r) ==
    LET p == i + Len(lit)
        e == p + r.groups[1] - 1
    IN  IF LitAt(s, i, lit) /\ e <= Len(s) /\ \A j \in p..e : s[j] \in r.val
        THEN e ELSE 0

AltEnd(s, i, lit, r) ==
    CASE r.kind = "assign" -> AssignAlt(s, i, lit, r)
      [] r.kind = "spaced" -> SpacedAlt(s, i, lit, r)
      [] r.kind = "uri"    -> UriAlt(s, i, lit, r)
      [] r.kind = "awskey" -> AwsAlt(s, i, lit, r)

\* the alternatives of group 1 are tried in the order written
KeywordMatch(s, i, r) ==
    LET ok == {k \in 1..Len(r.alts) : AltEnd(s, i, r.alts[k], r) > 0}
    IN  IF ok = {} THEN <<0, 0>>
        ELSE LET k == Min(ok)
                 e == AltEnd(s, i, r.alts[k], r)
             IN  IF r.capsp
                 THEN <<e, RunEnd(s, i + Len(r.alts[k]), Space) - i + 1>>
                 ELSE <<e, Len(r.alts[k])>>

\* \d{g1}[\s\-]?\d{g2}[\s\-]?... from position pos, group k onwards
RECURSIVE GroupsEnd(_, _, _, _)
GroupsEnd(s, pos, groups, k) ==
    IF k > Len(groups) THEN pos - 1
    ELSE LET st == IF k > 1 /\ pos <= Len(s) /\ s[pos] \in (Space \cup {"-"})
                   THEN pos + 1 ELSE pos
             en == st + groups[k] - 1
         IN  IF en <= Len(s) /\ \A j \in st..en : s[j] \in Digits
             THEN GroupsEnd(s, en + 1, groups, k + 1)
             ELSE 0

\* \b(...)\b around the digit groups
DigitsMatch(s, i, r) ==
    LET e == GroupsEnd(s, i, r.groups, 1)
    IN  IF /\ (i = 1 \/ s[i - 1] \notin Word)
           /\ e > 0
           /\ (e = Len(s) \/ s[e + 1] \notin Word)
        THEN <<e, 0>> ELSE <<0, 0>>

\* -----BEGIN\s+(RSA\s+)?PRIVATE\s+KEY-----  (word = "begin" or "end")
PemMarkEnd(s, i, word) ==
    LET dashes == <<"-", "-", "-", "-", "-">>
        a  == i + 5 + Len(word)
        b  == RunEnd(s, a, Space) + 1
        c  == IF LitAt(s, b, <<"r", "s", "a">>)
                 /\ RunEnd(s, b + 3, Space) >= b + 3
              THEN RunEnd(s, b + 3, Space) + 1 ELSE b
        d  == c + 7
        f  == RunEnd(s, d, Space) + 1
    IN  IF /\ LitAt(s, i, dashes \o word)
           /\ b > a
           /\ LitAt(s, c, <<"p", "r", "i", "v", "a", "t", "e">>)
           /\ f > d
           /\ LitAt(s, f, <<"k", "e", "y">> \o dashes)
        THEN f + 7 ELSE 0

\* BEGIN line, [\s\S]*? (as short as possible), END line
PemMatch(s, i) ==
    LET h     == PemMarkEnd(s, i, <<"b", "e", "g", "i", "n">>)
        tails == {j \in (h + 1)..Len(s) : PemMarkEnd(s, j, <<"e", "n", "d">>) > 0}
    IN  IF h = 0 \/ tails = {} THEN <<0, 0>>
        ELSE <<PemMarkEnd(s, Min(tails), <<"e", "n", "d">>), 0>>

Match(r, s, i) ==
    CASE r.kind = "digits" -> DigitsMatch(s, i, r)
      [] r.kind = "pem"    -> PemMatch(s, i)
      [] OTHER             -> KeywordMatch(s, i, r)

\* regex.search(sanitized)
Search(r, s) == \E i \in 1..Len(s) : Match(r, s, i)[1] > 0

\* regex.sub(replacement, sanitized): leftmost matches, left to right,
\* never overlapping
RECURSIVE SubFrom(_, _, _)
SubFrom(r, s, i) ==
    IF i > Len(s) THEN <<>>
    ELSE LET m == Match(r, s, i)
         IN  IF m[1] > 0
             THEN (IF r.usecap THEN SubSeq(s, i, i + m[2] - 1) ELSE <<>>)
                  \o r.suffix \o SubFrom(r, s, m[1] + 1)
             ELSE <<s[i]>> \o SubFrom(r, s, i + 1)

Sub(r, s) == SubFrom(r, s, 1)

\* the if/elif chain that names the kind of secret a rule found
Category(r) ==
    IF r.pat_password THEN "cat_password"
    ELSE IF r.pat_api THEN "cat_api_token"
    ELSE IF r.repl_card THEN "cat_card"
    ELSE IF r.repl_ssn THEN "cat_ssn"
    ELSE IF r.repl_mynumber THEN "cat_mynumber"
    ELSE IF r.pat_aws THEN "cat_aws"
    ELSE IF r.repl_private THEN "cat_private_key"
    ELSE IF r.pat_db THEN "cat_db"
    ELSE "cat_credential"

\* the loop over SENSITIVE_PATTERNS, from rule k on
RECURSIVE SanitizeFrom(_, _, _)
SanitizeFrom(k, sanitized, detected) ==
    IF k > Len(SENSITIVE_PATTERNS)
    THEN [text |-> sanitized, detected |-> detected]
    ELSE LET r == SENSITIVE_PATTERNS[k]
         IN  IF Search(r, sanitized)
             THEN SanitizeFrom(k + 1, Sub(r, sanitized), detected \cup {Category(r)})
             ELSE SanitizeFrom(k + 1, sanitized, detected)

(***************************************************************************)
(* Bounds, and the texts a user sends in the session.                      *)
(***************************************************************************)

MaxTurns == 3

MaxOps == 4

MaxLen == 3

\* "CPU", " cpu ", "pw=x", "pw=<maintenance>", "<maintenance> SW"
SessionTexts ==
    {<<"C", "P", "U">>,
     <<" ", "c", "p", "u", " ">>,
     <<"p", "w", "=", "x">>,
     <<"p", "w", "=", "ja_maintenance">>,
     <<"ja_maintenance", " ", "S", "W">>}

\* sanitize_message on the texts of the session, computed once
SanitizeTable == [t \in SessionTexts |-> SanitizeFrom(1, t, {})]

sanitize_message(message) ==
    IF message \in DOMAIN SanitizeTable THEN SanitizeTable[message]
    ELSE SanitizeFrom(1, message, {})

(***************************************************************************)
(* The local fallback matcher.  A dict of the source is a function from    *)
(* the keys it holds to their values.                                      *)
(***************************************************************************)

\* {}
EmptyDict == [k \in {} |-> k]

\* d.get(key, default)
Get(d, key, default) == IF key \in DOMAIN d THEN d[key] ELSE default

\* int() of a run of decimal digits
RECURSIVE int(_)
int(ds) ==
    IF ds = <<>> THEN 0
    ELSE 10 * int(SubSeq(ds, 1, Len(ds) - 1))
         + (CHOOSE v \in 0..9 : DigitSeq[v + 1] = ds[Len(ds)])

\* [A-Z0-9_-]
HostClass == Upper \cup Digits \cup {"_", "-"}

\* re.search(r'([A-Z][A-Z0-9_-]+)', user_message): group 1 of the leftmost
\* match, <<>> when there is none
host_match(s) ==
    LET st == {i \in 1..(Len(s) - 1) : s[i] \in Upper /\ s[i + 1] \in HostClass}
    IN  IF st = {} THEN <<>>
        ELSE SubSeq(s, Min(st), RunEnd(s, Min(st) + 1, HostClass))

\* the units of (分|時間|hour|min), in the order written
TimeUnits == << <<"ja_fun">>, <<"ja_jikan">>, <<"h", "o", "u", "r">>, <<"m", "i", "n">> >>

\* the unit that follows the digit run starting at i, 0 when none does
UnitAfter(s, i) ==
    LET p  == RunEnd(s, RunEnd(s, i, Digits) + 1, Space) + 1
        ok == {k \in 1..Len(TimeUnits) :
                  /\ p + Len(TimeUnits[k]) - 1 <= Len(s)
                  /\ SubSeq(s, p, p + Len(TimeUnits[k]) - 1) = TimeUnits[k]}
    IN  IF ok = {} THEN 0 ELSE Min(ok)

\* re.search(r'(\d+)\s*(分|時間|hour|min)', message_lower): <<group 1, unit>>
\* of the leftmost match, <<>> when there is none
time_match(s) ==
    LET st == {i \in 1..Len(s) : s[i] \in Digits /\ UnitAfter(s, i) > 0}
    IN  IF st = {} THEN <<>>
        ELSE <<SubSeq(s, Min(st), RunEnd(s, Min(st), Digits)), UnitAfter(s, Min(st))>>

\* a fault: the last number of the text is taken
threshold_match_last(s) ==
    LET st == {i \in 1..Len(s) : s[i] \in Digits /\ (i = 1 \/ s[i - 1] \notin Digits)}
    IN  IF st = {} THEN <<>>
        ELSE LET b == CHOOSE i \in st : \A j \in st : j <= i
             IN  SubSeq(s, b, RunEnd(s, b, Digits))

\* re.search(r'(\d+)\s*%?', user_message): group 1, <<>> when there is none
threshold_match(s) ==
    LET st == {i \in 1..Len(s) : s[i] \in Digits}
    IN  IF st = {} THEN <<>>
        ELSE SubSeq(s, Min(st), RunEnd(s, Min(st), Digits))

SENTINEL_HOST == <<"W", "A", "N", "_", "R", "O", "U", "T", "E", "R", "_", "0", "1">>

\* a fault: the search loop tries the memory keyword before cpu
MetricKeywords_memory_first ==
    << <<<<"ja_memory">>, "memory">>, <<<<"c", "p", "u">>, "cpu">>, <<<<"ja_disk">>, "disk">> >>

\* the (metric_ja, metric_en) pairs of the search loop, in the order written
MetricKeywords ==
    << <<<<"c", "p", "u">>, "cpu">>, <<<<"ja_memory">>, "memory">>, <<<<"ja_disk">>, "disk">> >>

set_maintenance_response(user_message, message_lower) ==
    LET hm       == host_match(user_message)
        host_id  == IF hm # <<>> THEN hm ELSE SENTINEL_HOST
        tm       == time_match(message_lower)
        duration == IF tm = <<>> THEN 60
                    ELSE IF tm[2] \in {2, 3} THEN int(tm[1]) * 60
                    ELSE int(tm[1])
    IN  [intent |-> <<"set_maintenance", host_id>>,
         action |-> "set_maintenance",
         parameters |-> [host_id |-> host_id, duration_minutes |-> duration]]

search_hosts_response(user_message, message_lower, metric_en) ==
    LET tm        == threshold_match(user_message)
        threshold == IF tm # <<>> THEN int(tm) ELSE 80
        operator  == IF Contains(message_lower, <<"ja_ika">>) \/ Contains(message_lower, <<"ja_miman">>)
                     THEN "<"
                     ELSE IF Contains(message_lower, <<"ja_ijou">>) THEN ">=" ELSE ">"
    IN  [intent |-> <<"search_hosts", metric_en, threshold, operator>>,
         action |-> "search_hosts",
         parameters |-> [metric |-> metric_en, operator |-> operator, value |-> threshold]]

show_graph_response(user_message, message_lower) ==
    LET hm      == host_match(user_message)
        host_id == IF hm # <<>> THEN hm ELSE SENTINEL_HOST
        metric  == IF Contains(message_lower, <<"c", "p", "u">>) THEN "cpu"
                   ELSE IF Contains(message_lower, <<"ja_memory">>) THEN "memory" ELSE "cpu"
    IN  [intent |-> <<"show_graph", host_id, metric>>,
         action |-> "show_graph",
         parameters |-> [host_id |-> host_id, metric |-> metric, hours |-> 24]]

\* the rules after the metric loop
after_metrics(user_message, message_lower) ==
    IF /\ \/ Contains(message_lower, <<"ja_metrics">>)
          \/ Contains(message_lower, <<"ja_joutai">>)
          \/ Contains(message_lower, <<"ja_jouhou">>)
       /\ host_match(user_message) # <<>>
    THEN [intent |-> <<"get_metrics", host_match(user_message)>>,
          action |-> "get_metrics",
          parameters |-> [host_id |-> host_match(user_message)]]
    ELSE IF \/ Contains(message_lower, <<"ja_alert">>)
            \/ Contains(message_lower, <<"ja_shougai">>)
            \/ Contains(message_lower, <<"ja_mondai">>)
    THEN [intent |-> <<"get_alerts">>, action |-> "get_alerts", parameters |-> EmptyDict]
    ELSE IF \/ Contains(message_lower, <<"ja_graph">>)
            \/ Contains(message_lower, <<"ja_suii">>)
            \/ Contains(message_lower, <<"ja_trend">>)
    THEN show_graph_response(user_message, message_lower)
    ELSE IF Contains(message_lower, <<"ja_server">>)
    THEN [intent |-> <<"show_server_info">>, action |-> "show_server_info",
          parameters |-> EmptyDict]
    ELSE [intent |-> <<"unknown">>, action |-> "unknown",
          parameters |-> [original_query |-> user_message]]

\* the rule chain of generate_mock_response
match_rules(user_message) ==
    LET message_lower == Lower(user_message)
        metrics == {k \in 1..Len(MetricKeywords) :
                       Contains(message_lower, MetricKeywords[k][1])}
    IN  IF /\ Contains(message_lower, <<"ja_topology">>)
           /\ \/ Contains(message_lower, <<"ja_settei">>)
              \/ Contains(message_lower, <<"ja_kanshi">>)
        THEN [intent |-> <<"generate_config">>, action |-> "generate_config",
              parameters |-> EmptyDict]
        ELSE IF Contains(message_lower, <<"ja_maintenance">>)
        THEN set_maintenance_response(user_message, message_lower)
        ELSE IF metrics # {}
        THEN search_hosts_response(user_message, message_lower,
                                   MetricKeywords[Min(metrics)][2])
        ELSE after_metrics(user_message, message_lower)

\* generate_mock_response on the texts of the session, raw and sanitized,
\* computed once
MockTable ==
    [t \in SessionTexts \cup {SanitizeTable[x].text : x \in SessionTexts} |->
        match_rules(t)]

generate_mock_response(user_message) ==
    IF user_message \in DOMAIN MockTable THEN MockTable[user_message]
    ELSE match_rules(user_message)

(***************************************************************************)
(* The command cache.  md5 is taken to be injective on the texts at hand,  *)
(* so a key is the normalised text under the tag "md5".                    *)
(***************************************************************************)

\* a fault: the key is taken from the sanitized text
get_cache_key_sanitized(intent) ==
    <<"md5", Strip(Lower(sanitize_message(intent).text))>>

\* hashlib.md5(intent.lower().strip().encode()).hexdigest()
get_cache_key(intent) == <<"md5", Strip(Lower(intent))>>

\* Python's None, as returned by get_cached_command and by dict.get
None == [none |-> TRUE]

\* a fault: storing an entry drops every other entry
set_command_cache_single(cache, intent, command, now) ==
    [k \in {get_cache_key(intent)} |->
        [intent |-> intent, command |-> command, created_at |-> now, use_count |-> 1]]

\* cache[key] = {intent, command, created_at, use_count: 1}
set_command_cache(cache, intent, command, now) ==
    LET key == get_cache_key(intent)
    IN  [k \in DOMAIN cache \cup {key} |->
            IF k = key
            THEN [intent |-> intent, command |-> command,
                  created_at |-> now, use_count |-> 1]
            ELSE cache[k]]

\* a fault: a hit returns the whole entry instead of its command
get_cached_command_entry(cache, intent) ==
    LET key == get_cache_key(intent)
    IN  IF key \in DOMAIN cache
        THEN [cache  |-> [cache EXCEPT ![key].use_count = @ + 1],
              result |-> cache[key]]
        ELSE [cache |-> cache, result |-> None]

\* the cache after the call and the value the call returns
get_cached_command(cache, intent) ==
    LET key == get_cache_key(intent)
    IN  IF key \in DOMAIN cache
        THEN [cache  |-> [cache EXCEPT ![key].use_count = @ + 1],
              result |-> cache[key].command]
        ELSE [cache |-> cache, result |-> None]

(***************************************************************************)
(* The remote classification call.  The reply text of the remote model is  *)
(* a sequence of segments: prose without braces, a well-formed JSON        *)
(* object, or a single stray brace.                                        *)
(***************************************************************************)

Prose == [seg |-> "prose", obj |-> EmptyDict]

OpenBrace == [seg |-> "open", obj |-> EmptyDict]

CloseBrace == [seg |-> "close", obj |-> EmptyDict]

JsonObject(d) == [seg |-> "obj", obj |-> d]

\* re.search(r'\{[\s\S]*\}', text): from the first { to the last }
json_match(text) ==
    LET opens  == {i \in 1..Len(text) : text[i].seg \in {"obj", "open"}}
        closes == {j \in 1..Len(text) : text[j].seg \in {"obj", "close"}}
    IN  IF opens = {} \/ {j \in closes : j >= Min(opens)} = {} THEN <<>>
        ELSE SubSeq(text, Min(opens),
                    CHOOSE j \in closes : \A j2 \in closes : j2 <= j)

\* json.loads succeeds on exactly one well-formed object
json_loads_ok(m) == Len(m) = 1 /\ m[1].seg = "obj"

\* the ways the request can fail before a reply text is in hand:
\* requests.post raising Timeout or another error, raise_for_status,
\* response.json(), and result["candidates"][0]["content"]["parts"][0]["text"]
FailureKinds ==
    {"timeout", "connection_error", "http_error", "body_not_json", "unexpected_shape"}

REQUEST_TIMEOUT == 15

\* a fault: the request carries the message as typed
gemini_request_raw(user_message, sanitized_message) ==
    [text |-> user_message, timeout |-> REQUEST_TIMEOUT]

\* the request of requests.post: the prompt text ends with the sanitized
\* message; the system prompt before it is fixed
gemini_request(user_message, sanitized_message) ==
    [text |-> sanitized_message, timeout |-> REQUEST_TIMEOUT]

\* a fault: the local matcher is given the message as typed
gemini_fallback_raw(user_message, sanitized_message) ==
    generate_mock_response(user_message)

\* return generate_mock_response(sanitized_message)
gemini_fallback(user_message, sanitized_message) ==
    generate_mock_response(sanitized_message)

\* a fault: a request that times out is sent again
requests_sent_retry(e, request) ==
    IF ~e.has_key THEN <<>>
    ELSE IF e.outcome = "timeout" THEN <<request, request>> ELSE <<request>>

\* the requests one call sends: one requests.post when a key is found
requests_sent(e, request) ==
    IF e.has_key THEN <<request>> ELSE <<>>

\* what call_gemini returns once the request and the fallback answer are
\* in hand; e tells whether an API key is found, how the request ends and
\* the reply text
gemini_reply(e, request, fallback, detected) ==
    IF \/ ~e.has_key
       \/ e.outcome = "timeout"
       \/ e.outcome # "ok"
       \/ json_match(e.text) = <<>>
       \/ ~json_loads_ok(json_match(e.text))
    THEN [response |-> fallback, requests |-> requests_sent(e, request),
          mock_calls |-> 1, warning |-> detected, raised |-> FALSE]
    ELSE [response |-> json_match(e.text)[1].obj, requests |-> requests_sent(e, request),
          mock_calls |-> 0, warning |-> detected, raised |-> FALSE]

\* call_gemini from the result s of sanitize_message on
gemini_sanitized(user_message, e, s) ==
    gemini_reply(e, gemini_request(user_message, s.text),
                 gemini_fallback(user_message, s.text), s.detected)

call_gemini(user_message, e) ==
    gemini_sanitized(user_message, e, sanitize_message(user_message))

(***************************************************************************)
(* One message turn.                                                       *)
(***************************************************************************)

VARIABLES
    command_cache,   \* st.session_state.command_cache
    maintenance,     \* st.session_state.maintenance
    clock,           \* datetime.now(), one tick per turn
    last,            \* what the last operation was given and what it did
    txt,             \* argument of a function applied on its own
    env,             \* remote behaviour given to call_gemini applied on its own
    out              \* result of a function applied on its own

vars == <<command_cache, maintenance, clock, last, txt, env, out>>

\* `if cached:` on None or a dict
Truthy(v) == v # None /\ DOMAIN v # {}

KnownActions ==
    {"generate_config", "set_maintenance", "search_hosts", "get_metrics",
     "get_alerts", "show_graph", "show_server_info"}

UNKNOWN_HOST == <<"ja_fumei">>

\* a fault: the map is replaced by one that holds the new window only
set_maintenance_alone(maint, params, now) ==
    LET host_id  == Get(params, "host_id", UNKNOWN_HOST)
        duration == Get(params, "duration_minutes", 60)
    IN  [h \in {host_id} |-> [start |-> now, end |-> now + duration, duration |-> duration]]

\* st.session_state.maintenance[host_id] = {start, end, duration}
set_maintenance(maint, params, now) ==
    LET host_id  == Get(params, "host_id", UNKNOWN_HOST)
        duration == Get(params, "duration_minutes", 60)
    IN  [h \in DOMAIN maint \cup {host_id} |->
            IF h = host_id
            THEN [start |-> now, end |-> now + duration, duration |-> duration]
            ELSE maint[h]]

\* the rest of process_message once the response is in hand: the branch on
\* the action, and what the turn did
dispatch(cache, maint, now, user_message, e, got, is_cached, response, requests, mock_calls) ==
    [cache       |-> cache,
     maintenance |-> IF Get(response, "action", "unknown") = "set_maintenance"
                     THEN set_maintenance(maint, Get(response, "parameters", EmptyDict), now)
                     ELSE maint,
     result      |-> [op |-> "process_message",
                      raw |-> user_message,
                      has_key |-> e.has_key,
                      got |-> got,
                      cached |-> is_cached,
                      requests |-> requests,
                      mock_calls |-> mock_calls,
                      response |-> response,
                      branch |-> IF Get(response, "action", "unknown") \in KnownActions
                                 THEN Get(response, "action", "unknown")
                                 ELSE "suggestion"]]

\* process_message from the result g of get_cached_command on; call is what
\* call_gemini returns when it is called
lookup_done(maint, now, user_message, e, g, call) ==
    IF Truthy(g.result)
    THEN dispatch(g.cache, maint, now, user_message, e, g.result, TRUE, g.result, <<>>, 0)
    ELSE dispatch(IF Get(call.response, "action", "None") # "unknown"
                  THEN set_command_cache(g.cache, user_message, call.response, now)
                  ELSE g.cache,
                  maint, now, user_message, e, g.result, FALSE,
                  call.response, call.requests, call.mock_calls)

\* process_message, as a function of the session state and the inputs
process_message(cache, maint, now, user_message, e) ==
    lookup_done(maint, now, user_message, e,
                get_cached_command(cache, user_message), call_gemini(user_message, e))

(***************************************************************************)
(* The ways the remote classifier can behave, and the session.             *)
(***************************************************************************)

\* JSON objects the remote model may answer with
RemoteObjects ==
    {[intent |-> <<"get_alerts">>, action |-> "get_alerts", parameters |-> EmptyDict],
     [intent |-> <<"set_maintenance">>, action |-> "set_maintenance",
      parameters |-> [host_id |-> <<"S", "W">>, duration_minutes |-> 30]],
     [intent |-> <<"set_maintenance">>, action |-> "set_maintenance",
      parameters |-> [host_id |-> <<"F", "W">>]],
     [intent |-> <<"unknown">>, action |-> "unknown", parameters |-> EmptyDict],
     [intent |-> <<"get_alerts">>],
     [action |-> "restart_host"],
     EmptyDict}

ReplyTexts ==
    {<<JsonObject(d)>> : d \in RemoteObjects}
    \cup {<<Prose>>,
          <<Prose, JsonObject([action |-> "get_alerts"]), Prose>>,
          <<JsonObject([action |-> "get_alerts"]), Prose, JsonObject(EmptyDict)>>,
          <<OpenBrace, Prose, CloseBrace>>}

NoKey == [has_key |-> FALSE, outcome |-> "none", text |-> <<>>]

Envs ==
    {NoKey}
    \cup {[has_key |-> TRUE, outcome |-> k, text |-> <<>>] : k \in FailureKinds}
    \cup {[has_key |-> TRUE, outcome |-> "ok", text |-> t] : t \in ReplyTexts}

NoOp ==
    [op |-> "none", raw |-> <<>>, has_key |-> FALSE, got |-> None, cached |-> FALSE, requests |-> <<>>,
     mock_calls |-> 0, response |-> None, branch |-> "none"]

NotRun == [fn |-> "none"]

Init ==
    /\ command_cache = EmptyDict
    /\ maintenance = EmptyDict
    /\ clock = 0
    /\ last = NoOp
    /\ txt = <<>>
    /\ env = NoKey
    /\ out = NotRun

\* the session after a turn that did r
Turn(r) ==
    /\ command_cache' = r.cache
    /\ maintenance' = r.maintenance
    /\ last' = r.result

\* a chat turn: main() hands the text to process_message
ProcessMessage ==
    \E t \in SessionTexts, e \in Envs :
        /\ clock < MaxTurns
        /\ Turn(process_message(command_cache, maintenance, clock, t, e))
        /\ clock' = clock + 1
        /\ UNCHANGED <<txt, env, out>>

\* the cache-clear button of the sidebar
ClearCache ==
    /\ command_cache' = EmptyDict
    /\ last' = [NoOp EXCEPT !.op = "clear"]
    /\ UNCHANGED <<maintenance, clock, txt, env, out>>

Next == ProcessMessage \/ ClearCache

Spec == Init /\ [][Next]_vars

(***************************************************************************)
(* The functions applied on their own to texts built from a few words.     *)
(***************************************************************************)

\* the texts made of at most n of the words
RECURSIVE TextsOver(_, _)
TextsOver(words, n) ==
    IF n = 0 THEN {<<>>}
    ELSE LET shorter == TextsOver(words, n - 1)
         IN  shorter \cup {s \o w : s \in shorter, w \in words}

\* "pw", "=", "x", " ", "<maintenance>", "SW", "token", "90"
GeminiWords ==
    {<<"p", "w">>, <<"=">>, <<"x">>, <<" ">>, <<"ja_maintenance">>, <<"S", "W">>,
     <<"t", "o", "k", "e", "n">>, <<"9", "0">>}

GeminiTexts == TextsOver(GeminiWords, MaxLen)

InitGemini ==
    /\ command_cache = EmptyDict
    /\ maintenance = EmptyDict
    /\ clock = 0
    /\ last = NoOp
    /\ txt \in GeminiTexts
    /\ env \in Envs
    /\ out = NotRun

CallGemini ==
    /\ out = NotRun
    /\ out' = [fn |-> "call_gemini", result |-> call_gemini(txt, env)]
    /\ UNCHANGED <<command_cache, maintenance, clock, last, txt, env>>

NextGemini == CallGemini

SpecGemini == InitGemini /\ [][NextGemini]_vars

\* keywords of every rule of generate_mock_response, a host name, a filler
MockWords ==
    {<<"ja_topology">>, <<"ja_settei">>, <<"ja_maintenance">>, <<"c", "p", "u">>,
     <<"ja_memory">>, <<"ja_disk">>, <<"ja_joutai">>, <<"ja_alert">>, <<"ja_graph">>,
     <<"ja_server">>, <<"S", "W">>, <<"x">>}

MockTexts == TextsOver(MockWords, MaxLen)

InitMock ==
    /\ command_cache = EmptyDict
    /\ maintenance = EmptyDict
    /\ clock = 0
    /\ last = NoOp
    /\ txt \in MockTexts
    /\ env = NoKey
    /\ out = NotRun

ApplyMock ==
    /\ out = NotRun
    /\ out' = [fn |-> "generate_mock_response", result |-> generate_mock_response(txt)]
    /\ UNCHANGED <<command_cache, maintenance, clock, last, txt, env>>

NextMock == ApplyMock

SpecMock == InitMock /\ [][NextMock]_vars

\* "CPU", " cpu ", "cpu x", "pw=x"
CacheTexts ==
    {<<"C", "P", "U">>, <<" ", "c", "p", "u", " ">>, <<"c", "p", "u", " ", "x">>,
     <<"p", "w", "=", "x">>}

CacheCommands ==
    {[action |-> "get_alerts"], [action |-> "show_server_info"], EmptyDict}

InitCache ==
    /\ command_cache = EmptyDict
    /\ maintenance = EmptyDict
    /\ clock = 0
    /\ last = [op |-> "none", raw |-> <<>>, command |-> None, got |-> None]
    /\ txt = <<>>
    /\ env = NoKey
    /\ out = NotRun

\* set_command_cache(intent, command)
PutOp ==
    \E t \in CacheTexts, c \in CacheCommands :
        /\ clock < MaxOps
        /\ command_cache' = set_command_cache(command_cache, t, c, clock)
        /\ last' = [op |-> "put", raw |-> t, command |-> c, got |-> None]
        /\ clock' = clock + 1
        /\ UNCHANGED <<maintenance, txt, env, out>>

\* the cache after a lookup that returned g
Looked(t, g) ==
    /\ command_cache' = g.cache
    /\ last' = [op |-> "get", raw |-> t, command |-> None, got |-> g.result]

\* get_cached_command(intent)
GetOp ==
    \E t \in CacheTexts :
        /\ clock < MaxOps
        /\ Looked(t, get_cached_command(command_cache, t))
        /\ clock' = clock + 1
        /\ UNCHANGED <<maintenance, txt, env, out>>

NextCache == PutOp \/ GetOp

SpecCache == InitCache /\ [][NextCache]_vars

(***************************************************************************)
(* C1                                                                      *)
(***************************************************************************)

\* the substrings of a raw text that some rule of SENSITIVE_PATTERNS matches
RuleMatched(raw) ==
    {SubSeq(raw, p[2], Match(SENSITIVE_PATTERNS[p[1]], raw, p[2])[1]) :
        p \in {q \in (1..Len(SENSITIVE_PATTERNS)) \X (1..Len(raw)) :
                  Match(SENSITIVE_PATTERNS[q[1]], raw, q[2])[1] > 0}}

\* C1: every request call_gemini sends carries sanitize_message(raw).text as
\* its user text, and no substring of the raw text that a redaction rule
\* matched occurs in a request.
Thm_C1 ==
    out.fn = "call_gemini" =>
        \A n \in 1..Len(out.result.requests) :
            /\ out.result.requests[n].text = sanitize_message(txt).text
            /\ \A m \in RuleMatched(txt) : ~Contains(out.result.requests[n].text, m)

\* a request was sent for a text in which a rule matched, and it differs
\* from the raw text
Wit_C1 ==
    /\ out.fn = "call_gemini"
    /\ Len(out.result.requests) = 1
    /\ RuleMatched(txt) # {}
    /\ txt = <<"p", "w", "=", "x">>
    /\ out.result.requests[1].text # txt

(***************************************************************************)
(* C2                                                                      *)
(***************************************************************************)

\* C2: when the cache holds an entry for the fingerprint of the incoming
\* text, the turn returns the stored Intent, raises the entry's use_count by
\* one, sends no remote request and does not call the local matcher.
Cex_C2 ==
    [][(/\ last'.op = "process_message"
        /\ get_cache_key(last'.raw) \in DOMAIN command_cache)
       => LET key == get_cache_key(last'.raw)
          IN  /\ last'.response = command_cache[key].command
              /\ key \in DOMAIN command_cache'
              /\ command_cache'[key].use_count = command_cache[key].use_count + 1
              /\ last'.requests = <<>>
              /\ last'.mock_calls = 0]_vars

(***************************************************************************)
(* C3                                                                      *)
(***************************************************************************)

\* the remote call was attempted and failed: the request raised, the status
\* or the body was bad, the reply holds no {...}, or the {...} does not parse
RemoteFailure(e) ==
    /\ e.has_key
    /\ \/ e.outcome \in FailureKinds
       \/ /\ e.outcome = "ok"
          /\ \/ \A i \in 1..Len(e.text) : e.text[i].seg = "prose"
             \/ json_match(e.text) = <<>>
             \/ Len(json_match(e.text)) # 1
             \/ json_match(e.text)[1].seg # "obj"

Thm_C4 ==
    last.op = "process_message" =>
        /\ Len(last.requests) <= 1
        /\ (~last.has_key => last.requests = <<>>)

\* a turn whose single request failed and was answered locally
Wit_C4 ==
    /\ last.op = "process_message"
    /\ last.has_key
    /\ Len(last.requests) = 1
    /\ last.mock_calls = 1

(***************************************************************************)
(* C5                                                                      *)
(***************************************************************************)

\* C5: no cache entry holds an Intent whose action is unknown; a turn that
\* resolves to unknown leaves the cache unchanged; a miss that resolves to
\* another action creates an entry under the fingerprint of the original text.
Cex_C5 ==
    [][last'.op = "process_message"
       => LET key      == get_cache_key(last'.raw)
              resolved == Get(last'.response, "action", "unknown")
          IN  /\ \A k \in DOMAIN command_cache' :
                    Get(command_cache'[k].command, "action", "None") # "unknown"
              /\ (resolved = "unknown" => command_cache' = command_cache)
              /\ (key \notin DOMAIN command_cache /\ resolved # "unknown")
                 => /\ key \in DOMAIN command_cache'
                    /\ command_cache'[key].command = last'.response]_vars

(***************************************************************************)
(* C6                                                                      *)
(***************************************************************************)

\* C6: a put followed by a get on the same text returns the stored Intent;
\* each get that hits raises the use_count of that entry by exactly one and
\* changes nothing else; a get that misses changes nothing.
Thm_C6 ==
    [][LET key == get_cache_key(last'.raw)
       IN  /\ last'.op = "put"
              => /\ key \in DOMAIN command_cache'
                 /\ get_cached_command(command_cache', last'.raw).result = last'.command
           /\ (last'.op = "get" /\ key \in DOMAIN command_cache)
              => /\ last'.got = command_cache[key].command
                 /\ DOMAIN command_cache' = DOMAIN command_cache
                 /\ command_cache'[key].use_count = command_cache[key].use_count + 1
                 /\ command_cache'[key].command = command_cache[key].command
                 /\ command_cache'[key].intent = command_cache[key].intent
                 /\ command_cache'[key].created_at = command_cache[key].created_at
                 /\ \A k \in DOMAIN command_cache \ {key} :
                       command_cache'[k] = command_cache[k]
           /\ (last'.op = "get" /\ key \notin DOMAIN command_cache)
              => /\ last'.got = None
                 /\ command_cache' = command_cache]_vars

\* a get on " cpu " returned what was put under "CPU", for the third time
Wit_C6 ==
    /\ last.op = "get"
    /\ last.raw = <<" ", "c", "p", "u", " ">>
    /\ last.got = [action |-> "get_alerts"]
    /\ get_cache_key(last.raw) \in DOMAIN command_cache
    /\ command_cache[get_cache_key(last.raw)].intent = <<"C", "P", "U">>
    /\ command_cache[get_cache_key(last.raw)].use_count = 4

(***************************************************************************)
(* C7                                                                      *)
(***************************************************************************)

\* C7: the use_count of an entry starts at 1 and never decreases until the
\* cache is cleared.
Cex_C7 ==
    [][last'.op = "process_message"
       => \A k \in DOMAIN command_cache' :
             /\ k \notin DOMAIN command_cache => command_cache'[k].use_count = 1
             /\ k \in DOMAIN command_cache
                => command_cache'[k].use_count >= command_cache[k].use_count]_vars

(***************************************************************************)
(* C8                                                                      *)
(***************************************************************************)

\* the original text, lower-cased and stripped of surrounding whitespace
Norm(t) == Strip(Lower(t))

\* C8: an entry is keyed by its original text lower-cased and stripped, so
\* texts with the same normalised form share one entry, and a turn finds an
\* entry exactly when a stored text has the same normalised form as the
\* incoming text, whatever the sanitized forms are.
Thm_C8 ==
    [][last'.op = "process_message"
       => /\ (last'.got # None)
             <=> (\E k \in DOMAIN command_cache :
                     Norm(command_cache[k].intent) = Norm(last'.raw))
          /\ \A k \in DOMAIN command_cache' :
                k = <<"md5", Norm(command_cache'[k].intent)>>]_vars

\* " cpu " found the entry stored for "CPU", while "pw=x" and
\* "pw=<maintenance>" would be two entries although they sanitize alike
Wit_C8 ==
    /\ last.op = "process_message"
    /\ last.raw = <<" ", "c", "p", "u", " ">>
    /\ last.cached
    /\ command_cache[get_cache_key(last.raw)].intent = <<"C", "P", "U">>
    /\ command_cache[get_cache_key(last.raw)].use_count = 2
    /\ sanitize_message(<<"p", "w", "=", "x">>).text
           = sanitize_message(<<"p", "w", "=", "ja_maintenance">>).text
    /\ get_cache_key(<<"p", "w", "=", "x">>)
           # get_cache_key(<<"p", "w", "=", "ja_maintenance">>)

(***************************************************************************)
(* C9                                                                      *)
(***************************************************************************)

\* C9: a turn never removes an entry, so the key set only grows, and only
\* the cache-clear operation empties the cache.
Thm_C9 ==
    [][/\ last'.op = "process_message"
          => DOMAIN command_cache \subseteq DOMAIN command_cache'
       /\ last'.op = "clear" => command_cache' = EmptyDict
       /\ (command_cache # EmptyDict /\ command_cache' = EmptyDict)
          => last'.op = "clear"]_vars

\* three turns left three entries, the oldest still there
Wit_C9 ==
    /\ last.op = "process_message"
    /\ Cardinality(DOMAIN command_cache) = 3
    /\ \E k \in DOMAIN command_cache : command_cache[k].created_at = 0

(***************************************************************************)
(* C10                                                                     *)
(***************************************************************************)

\* a host token: an upper-case letter followed by an upper-case letter, a
\* digit, an underscore or a hyphen, in the text as typed
HasHostToken(t) ==
    \E i \in 1..(Len(t) - 1) :
        t[i] \in Upper /\ t[i + 1] \in Upper \cup Digits \cup {"_", "-"}

\* whether the text holds one of the keywords, case ignored
HasAny(t, keywords) == \E k \in keywords : Contains(Lower(t), k)

\* the condition of each rule, in the claimed order
RuleHolds(t) ==
    << HasAny(t, {<<"ja_topology">>}) /\ HasAny(t, {<<"ja_settei">>, <<"ja_kanshi">>}),
       HasAny(t, {<<"ja_maintenance">>}),
       HasAny(t, {<<"c", "p", "u">>, <<"ja_memory">>, <<"ja_disk">>}),
       HasAny(t, {<<"ja_metrics">>, <<"ja_joutai">>, <<"ja_jouhou">>}) /\ HasHostToken(t),
       HasAny(t, {<<"ja_alert">>, <<"ja_shougai">>, <<"ja_mondai">>}),
       HasAny(t, {<<"ja_graph">>, <<"ja_suii">>, <<"ja_trend">>}),
       HasAny(t, {<<"ja_server">>}),
       TRUE >>

RuleActions ==
    <<"generate_config", "set_maintenance", "search_hosts", "get_metrics",
      "get_alerts", "show_graph", "show_server_info", "unknown">>

FirstRule(t) == Min({k \in 1..Len(RuleActions) : RuleHolds(t)[k]})

\* C10: generate_mock_response answers with the action of the first rule
\* whose condition holds, in the order generate_config, set_maintenance,
\* search_hosts (cpu, then memory, then disk), get_metrics (only with a host
\* token), get_alerts, show_graph, show_server_info, and otherwise unknown
\* carrying the query.
Thm_C10 ==
    out.fn = "generate_mock_response" =>
        /\ out.result.action = RuleActions[FirstRule(txt)]
        /\ FirstRule(txt) = 3 =>
              out.result.parameters.metric =
                  (IF HasAny(txt, {<<"c", "p", "u">>}) THEN "cpu"
                   ELSE IF HasAny(txt, {<<"ja_memory">>}) THEN "memory" ELSE "disk")
        /\ FirstRule(txt) = 8 => out.result.parameters.original_query = txt

\* a text with a memory, a cpu and an alert keyword is a cpu search; a status
\* keyword without a host token falls through to the alert rule
Wit_C10 ==
    /\ out.fn = "generate_mock_response"
    /\ txt = <<"ja_memory", "c", "p", "u", "ja_alert">>
    /\ out.result.action = "search_hosts"
    /\ out.result.parameters.metric = "cpu"
    /\ generate_mock_response(<<"ja_joutai", "ja_alert">>).action = "get_alerts"
    /\ generate_mock_response(<<"ja_joutai", "ja_alert", "S", "W">>).action = "get_metrics"

(***************************************************************************)
(* C11                                                                     *)
(***************************************************************************)

\* "CPU", "cpu", "90", "5", "%<over><of><server><tell me>", "<memory>",
\* "<disk>", "<or less>", "<less than>", "<or more>", "<maintenance>", " "
SearchWords ==
    {<<"C", "P", "U">>, <<"c", "p", "u">>, <<"9", "0">>, <<"5">>,
     <<"%", "ja_koe", "ja_no", "ja_server", "ja_oshiete">>,
     <<"ja_memory">>, <<"ja_disk">>, <<"ja_ika">>, <<"ja_miman">>, <<"ja_ijou">>,
     <<"ja_maintenance">>, <<" ">>}

SearchTexts == TextsOver(SearchWords, MaxLen)

InitSearch ==
    /\ command_cache = EmptyDict
    /\ maintenance = EmptyDict
    /\ clock = 0
    /\ last = NoOp
    /\ txt \in SearchTexts
    /\ env = NoKey
    /\ out = NotRun

SpecSearch == InitSearch /\ [][NextMock]_vars

\* the value of the first number written in the text, 80 when there is none
StatedThreshold(t) ==
    LET first == {i \in 1..Len(t) : t[i] \in Digits /\ \A j \in 1..(i - 1) : t[j] \notin Digits}
        run   == {j \in 1..Len(t) : \A k \in Min(first)..j : t[k] \in Digits}
    IN  IF first = {} THEN 80
        ELSE int(SubSeq(t, Min(first), CHOOSE j \in run : \A k \in run : k <= j))

\* C11: for a text with a metric keyword and neither topology+configure nor
\* maintenance, generate_mock_response answers search_hosts with the metric
\* of the keyword, the number stated in the text (80 without one) and the
\* operator > by default, < with a below/under qualifier, >= with an
\* at-least qualifier.
Thm_C11 ==
    (/\ out.fn = "generate_mock_response"
     /\ HasAny(txt, {<<"c", "p", "u">>, <<"ja_memory">>, <<"ja_disk">>})
     /\ ~HasAny(txt, {<<"ja_maintenance">>})
     /\ ~(HasAny(txt, {<<"ja_topology">>}) /\ HasAny(txt, {<<"ja_settei">>, <<"ja_kanshi">>})))
    => /\ out.result.action = "search_hosts"
       /\ out.result.parameters.metric =
             (IF HasAny(txt, {<<"c", "p", "u">>}) THEN "cpu"
              ELSE IF HasAny(txt, {<<"ja_memory">>}) THEN "memory" ELSE "disk")
       /\ out.result.parameters.value = StatedThreshold(txt)
       /\ out.result.parameters.operator =
             (IF HasAny(txt, {<<"ja_ika">>, <<"ja_miman">>}) THEN "<"
              ELSE IF HasAny(txt, {<<"ja_ijou">>}) THEN ">=" ELSE ">")

\* "CPU90%<over><of><server><tell me>" gives cpu > 90
Wit_C11 ==
    /\ out.fn = "generate_mock_response"
    /\ txt = <<"C", "P", "U", "9", "0", "%", "ja_koe", "ja_no", "ja_server", "ja_oshiete">>
    /\ out.result.action = "search_hosts"
    /\ out.result.parameters = [metric |-> "cpu", operator |-> ">", value |-> 90]

(***************************************************************************)
(* C12                                                                     *)
(***************************************************************************)

\* "ROUTER_01", "<wo>", "<wo>2", "2", "30", "<hours><maintenance><ni>",
\* "<minutes>", "<maintenance>", "min", "hour", " "
MaintWords ==
    {<<"R", "O", "U", "T", "E", "R", "_", "0", "1">>, <<"ja_wo">>, <<"ja_wo", "2">>,
     <<"2">>, <<"3", "0">>, <<"ja_jikan", "ja_maintenance", "ja_ni">>, <<"ja_fun">>,
     <<"ja_maintenance">>, <<"m", "i", "n">>, <<"h", "o", "u", "r">>, <<" ">>}

MaintTexts == TextsOver(MaintWords, MaxLen)

InitMaint ==
    /\ command_cache = EmptyDict
    /\ maintenance = EmptyDict
    /\ clock = 0
    /\ last = NoOp
    /\ txt \in MaintTexts
    /\ env = NoKey
    /\ out = NotRun

SpecMaint == InitMaint /\ [][NextMock]_vars

\* the positions of the host-id token of the text: the leftmost upper-case
\* letter followed by an upper-case letter, digit, underscore or hyphen, and
\* the run of such characters after it
HostSpan(t) ==
    LET st == {i \in 1..(Len(t) - 1) : t[i] \in Upper /\ t[i + 1] \in HostClass}
    IN  IF st = {} THEN {}
        ELSE {i \in Min(st)..Len(t) : \A j \in (Min(st) + 1)..i : t[j] \in HostClass}

\* the host-id token of the text, the sentinel when there is none
StatedHost(t) ==
    IF HostSpan(t) = {} THEN SENTINEL_HOST
    ELSE [k \in 1..Cardinality(HostSpan(t)) |-> t[Min(HostSpan(t)) + k - 1]]

\* the minutes written in the text: the first number outside the host id
\* that stands before a unit, times 60 when the unit is hours; 60 when no
\* duration is written
StatedDuration(t) ==
    LET low == Lower(t)
        at  == {i \in 1..Len(t) :
                   /\ low[i] \in Digits
                   /\ i \notin HostSpan(t)
                   /\ (i = 1 \/ low[i - 1] \notin Digits)
                   /\ UnitAfter(low, i) > 0}
    IN  IF at = {} THEN 60
        ELSE IF UnitAfter(low, Min(at)) \in {2, 3}
             THEN int(SubSeq(low, Min(at), RunEnd(low, Min(at), Digits))) * 60
             ELSE int(SubSeq(low, Min(at), RunEnd(low, Min(at), Digits)))

\* C12: for a text with a maintenance keyword, generate_mock_response answers
\* set_maintenance with the host-id token of the text (the sentinel without
\* one) and the minutes written before a minute or hour unit (hours times
\* 60, 60 when none is written); digits of the host id are not the duration.
Cex_C12 ==
    (/\ out.fn = "generate_mock_response"
     /\ HasAny(txt, {<<"ja_maintenance">>})
     /\ ~(HasAny(txt, {<<"ja_topology">>}) /\ HasAny(txt, {<<"ja_settei">>, <<"ja_kanshi">>})))
    => /\ out.result.action = "set_maintenance"
       /\ out.result.parameters.host_id = StatedHost(txt)
       /\ out.result.parameters.duration_minutes = StatedDuration(txt)

(***************************************************************************)
(* generate_zabbix_config.  A topology is a dict in insertion order: a     *)
(* sequence of <<host_id, node>> pairs with distinct host ids.  A value    *)
(* that .get() finds missing or empty is "" (0 for a count).  The order in *)
(* which a Python set of strings is iterated follows the hashes of the     *)
(* process: h lists the strings in that order.                             *)
(***************************************************************************)

MaxHosts == 2

\* d.get(k1, {}).get(k2, default)
Get2(d, k1, k2, default) == Get(Get(d, k1, EmptyDict), k2, default)

RECURSIVE Concat(_)
Concat(ss) == IF ss = <<>> THEN <<>> ELSE Head(ss) \o Concat(Tail(ss))

\* sorted(layers)
Sorted(S) ==
    CHOOSE s \in [1..Cardinality(S) -> S] :
        \A i, j \in 1..Cardinality(S) : i < j => s[i] < s[j]

\* the elements of a set of strings in the order a loop over it meets them
SetOrder(S, h) ==
    LET member(x) == x \in S
    IN  SelectSeq(h, member)

\* template_map.get((vendor, device_type),
\*                  template_map.get(("default", device_type), [ping]))
templates_of(vendor, device_type) ==
    IF vendor = "Cisco" /\ device_type = "ROUTER"
    THEN <<"Template Cisco IOS-XE SNMP", "Template ICMP Ping">>
    ELSE IF vendor = "Cisco" /\ device_type = "SWITCH"
    THEN <<"Template Cisco Catalyst SNMP", "Template ICMP Ping">>
    ELSE IF vendor = "Juniper" /\ device_type = "FIREWALL"
    THEN <<"Template Juniper SRX SNMP", "Template ICMP Ping">>
    ELSE IF device_type = "ACCESS_POINT"
    THEN <<"Template Generic SNMP AP", "Template ICMP Ping">>
    ELSE <<"Template ICMP Ping">>

\* the host_config of one host
host_config(host_id, host_data) ==
    LET vendor      == Get2(host_data, "metadata", "vendor", "default")
        device_type == Get(host_data, "type", "unknown")
        location    == Get2(host_data, "metadata", "location", "")
        group       == Get(host_data, "redundancy_group", "")
        model       == Get2(host_data, "metadata", "model", "")
        psu_count   == Get(Get2(host_data, "metadata", "hw_inventory", EmptyDict), "psu_count", 0)
    IN  [host_id   |-> host_id,
         name      |-> host_id,
         groups    |-> <<<<"Network/Layer", host_data.layer>>>>
                       \o (IF vendor # "default" THEN <<<<"Vendor/", vendor>>>> ELSE <<>>)
                       \o (IF location # "" THEN <<<<"Location/", location>>>> ELSE <<>>)
                       \o (IF group # "" THEN <<<<"HA_Groups/", group>>>> ELSE <<>>),
         templates |-> templates_of(vendor, device_type),
         tags      |-> <<[tag |-> "layer", value |-> DigitSeq[host_data.layer + 1]],
                         [tag |-> "type", value |-> device_type]>>
                       \o (IF vendor # "default"
                           THEN <<[tag |-> "vendor", value |-> vendor]>> ELSE <<>>)
                       \o (IF model # "" THEN <<[tag |-> "model", value |-> model]>> ELSE <<>>),
         macros    |-> IF psu_count # 0 THEN [PSU_COUNT |-> psu_count] ELSE EmptyDict]

\* the dependency a host adds, if it has a parent
host_dependencies(host_id, host_data) ==
    IF Get(host_data, "parent_id", "") # ""
    THEN <<[host |-> host_id, depends_on |-> host_data.parent_id, type |-> "parent"]>>
    ELSE <<>>

\* a fault: the CPU trigger is added for every type of device
host_triggers_cpu_always(host_id, host_data) ==
    <<[host |-> host_id, name |-> <<host_id, "is unreachable">>,
       expression |-> <<"nodata", host_id>>,
       severity |-> IF host_data.layer <= 2 THEN "high" ELSE "average"],
      [host |-> host_id, name |-> <<host_id, "CPU usage is high">>,
       expression |-> <<"cpu.util", host_id>>, severity |-> "warning"]>>
    \o (IF Get(host_data, "redundancy_group", "") # ""
        THEN <<[host |-> host_id, name |-> <<"HA Failover detected", host_id>>,
                expression |-> <<"ha.role", host_id>>, severity |-> "warning"]>>
        ELSE <<>>)

\* the triggers of one host
host_triggers(host_id, host_data) ==
    <<[host |-> host_id, name |-> <<host_id, "is unreachable">>,
       expression |-> <<"nodata", host_id>>,
       severity |-> IF host_data.layer <= 2 THEN "high" ELSE "average"]>>
    \o (IF Get(host_data, "type", "unknown") \in {"ROUTER", "SWITCH", "FIREWALL"}
        THEN <<[host |-> host_id, name |-> <<host_id, "CPU usage is high">>,
                expression |-> <<"cpu.util", host_id>>, severity |-> "warning"]>>
        ELSE <<>>)
    \o (IF Get(host_data, "redundancy_group", "") # ""
        THEN <<[host |-> host_id, name |-> <<"HA Failover detected", host_id>>,
                expression |-> <<"ha.role", host_id>>, severity |-> "warning"]>>
        ELSE <<>>)

\* the host groups: layers sorted, then vendors, locations and HA groups in
\* the order their sets are iterated
host_groups(topology, h) ==
    LET nodes     == {topology[i][2] : i \in 1..Len(topology)}
        layers    == Sorted({n.layer : n \in nodes})
        vendors   == SetOrder({Get2(n, "metadata", "vendor", "") : n \in nodes} \ {""}, h)
        locations == SetOrder({Get2(n, "metadata", "location", "") : n \in nodes} \ {""}, h)
        ha_groups == SetOrder({Get(n, "redundancy_group", "") : n \in nodes} \ {""}, h)
    IN  [i \in 1..Len(layers) |-> [name |-> <<"Network/Layer", layers[i]>>, type |-> "layer"]]
        \o [i \in 1..Len(vendors) |-> [name |-> <<"Vendor/", vendors[i]>>, type |-> "vendor"]]
        \o [i \in 1..Len(locations) |->
               [name |-> <<"Location/", locations[i]>>, type |-> "location"]]
        \o [i \in 1..Len(ha_groups) |-> [name |-> <<"HA_Groups/", ha_groups[i]>>, type |-> "ha"]]

generate_zabbix_config(topology, h) ==
    [host_groups  |-> host_groups(topology, h),
     hosts        |-> [i \in 1..Len(topology) |-> host_config(topology[i][1], topology[i][2])],
     templates    |-> <<>>,
     triggers     |-> Concat([i \in 1..Len(topology) |->
                                 host_triggers(topology[i][1], topology[i][2])]),
     dependencies |-> Concat([i \in 1..Len(topology) |->
                                 host_dependencies(topology[i][1], topology[i][2])])]

(***************************************************************************)
(* Specification of generate_zabbix_config alone: txt holds the topology,  *)
(* env the order in which the process iterates sets of strings, and one    *)
(* step calls the function on the topology and on a dict that holds the    *)
(* same mapping in another insertion order.                                *)
(***************************************************************************)

HostIds == {"CORE_01", "FW_01", "AP_01"}

Nodes ==
    {[layer |-> 1, type |-> "ROUTER", metadata |-> [vendor |-> "Cisco", location |-> "Tokyo"],
      redundancy_group |-> "HA1"],
     [layer |-> 2, type |-> "FIREWALL", parent_id |-> "CORE_01", redundancy_group |-> "HA1",
      metadata |-> [vendor |-> "Juniper", model |-> "SRX", hw_inventory |-> [psu_count |-> 2]]],
     [layer |-> 2, type |-> "SWITCH", metadata |-> [vendor |-> "Juniper"],
      redundancy_group |-> ""],
     [layer |-> 3, type |-> "ACCESS_POINT", parent_id |-> "FW_01"],
     [layer |-> 3, type |-> "SWITCH", metadata |-> [vendor |-> ""]],
     [layer |-> 1, type |-> "ROUTER", metadata |-> [vendor |-> "default"]],
     [layer |-> 3]}

VendorNames == {"Cisco", "Juniper", "default"}

Injective(s) == \A i, j \in DOMAIN s : s[i] = s[j] => i = j

\* the vendors in any order; the one location and the one HA group follow
HashOrders ==
    {h \o <<"Tokyo", "HA1">> :
        h \in {v \in [1..Cardinality(VendorNames) -> VendorNames] : Injective(v)}}

Topologies ==
    UNION {{t \in [1..n -> HostIds \X Nodes] : Injective([i \in 1..n |-> t[i][1]])} :
           n \in 0..MaxHosts}

\* the dicts that hold the same mapping as the topology
Reorderings(topology) ==
    {t \in [1..Len(topology) -> {topology[i] : i \in 1..Len(topology)}] : Injective(t)}

InitConfig ==
    /\ command_cache = EmptyDict
    /\ maintenance = EmptyDict
    /\ clock = 0
    /\ last = NoOp
    /\ txt \in Topologies
    /\ env \in {[hash_order |-> h] : h \in HashOrders}
    /\ out = NotRun

ApplyConfig ==
    \E other \in Reorderings(txt) :
        /\ out = NotRun
        /\ out' = [fn |-> "generate_zabbix_config", other |-> other,
                   result |-> generate_zabbix_config(txt, env.hash_order),
                   again |-> generate_zabbix_config(other, env.hash_order)]
        /\ UNCHANGED <<command_cache, maintenance, clock, last, txt, env>>

NextConfig == ApplyConfig

SpecConfig == InitConfig /\ [][NextConfig]_vars

(***************************************************************************)
(* C13                                                                     *)
(***************************************************************************)

\* C13: two calls of generate_zabbix_config on topologies that hold the same
\* host_id -> node mapping return the same host_groups, hosts, triggers and
\* dependencies, as emitted sequences, whatever the iteration order of the
\* input mapping.
Cex_C13 ==
    out.fn = "generate_zabbix_config" => out.result = out.again

(***************************************************************************)
(* C14                                                                     *)
(***************************************************************************)

\* the positions of the emitted triggers of a host that carry a name
TriggersNamed(triggers, host_id, name) ==
    {i \in DOMAIN triggers : triggers[i].host = host_id /\ triggers[i].name = name}

\* the triggers the claim allots to one host
AllottedTriggers(triggers, host_id, host_data) ==
    LET unreachable == TriggersNamed(triggers, host_id, <<host_id, "is unreachable">>)
        cpu         == TriggersNamed(triggers, host_id, <<host_id, "CPU usage is high">>)
        failover    == TriggersNamed(triggers, host_id, <<"HA Failover detected", host_id>>)
    IN  /\ Cardinality(unreachable) = 1
        /\ \A i \in unreachable :
               triggers[i].severity = IF host_data.layer <= 2 THEN "high" ELSE "average"
        /\ Cardinality(cpu) =
               IF Get(host_data, "type", "unknown") \in {"ROUTER", "SWITCH", "FIREWALL"}
               THEN 1 ELSE 0
        /\ \A i \in cpu : triggers[i].severity = "warning"
        /\ Cardinality(failover) =
               IF Get(host_data, "redundancy_group", "") # "" THEN 1 ELSE 0
        /\ \A i \in failover : triggers[i].severity = "warning"
        /\ {i \in DOMAIN triggers : triggers[i].host = host_id}
               = unreachable \cup cpu \cup failover

\* C14: for every topology each host gets exactly one "unreachable" trigger,
\* of severity high when its layer is at most 2 and average otherwise,
\* exactly one "CPU usage is high" warning trigger if and only if its type
\* is ROUTER, SWITCH or FIREWALL, exactly one "HA Failover detected" warning
\* trigger if and only if it has a redundancy group, and no other trigger.
Thm_C14 ==
    out.fn = "generate_zabbix_config" =>
        /\ \A k \in DOMAIN txt :
               AllottedTriggers(out.result.triggers, txt[k][1], txt[k][2])
        /\ \A i \in DOMAIN out.result.triggers :
               \E k \in DOMAIN txt : out.result.triggers[i].host = txt[k][1]

\* a layer-1 router in an HA group beside a layer-3 node without a type: the
\* first host has its three triggers and the second only "unreachable"
Wit_C14 ==
    /\ out.fn = "generate_zabbix_config"
    /\ txt = <<<<"CORE_01", [layer |-> 1, type |-> "ROUTER", redundancy_group |-> "HA1",
                             metadata |-> [vendor |-> "Cisco", location |-> "Tokyo"]]>>,
               <<"AP_01", [layer |-> 3]>>>>
    /\ Len(out.result.triggers) = 4
    /\ out.result.triggers[1].severity = "high"
    /\ out.result.triggers[4] =
           [host |-> "AP_01", name |-> <<"AP_01", "is unreachable">>,
            expression |-> <<"nodata", "AP_01">>, severity |-> "average"]

(***************************************************************************)
(* The mock snapshot and its queries.  The hosts of the snapshot are a     *)
(* dict in insertion order: a sequence of <<host_id, host>> pairs with     *)
(* distinct host ids.  The alerts are a list of records.                   *)
(***************************************************************************)

MaxSnapshot == 3

\* a fault: > is read as >=
condition_holds_inclusive(current_value, operator, threshold) ==
    IF operator = ">" THEN current_value >= threshold
    ELSE IF operator = ">=" THEN current_value >= threshold
    ELSE IF operator = "<" THEN current_value < threshold
    ELSE IF operator = "<=" THEN current_value <= threshold
    ELSE IF operator = "=" THEN current_value = threshold
    ELSE FALSE

\* the if/elif chain over the operator
condition_holds(current_value, operator, threshold) ==
    IF operator = ">" THEN current_value > threshold
    ELSE IF operator = ">=" THEN current_value >= threshold
    ELSE IF operator = "<" THEN current_value < threshold
    ELSE IF operator = "<=" THEN current_value <= threshold
    ELSE IF operator = "=" THEN current_value = threshold
    ELSE FALSE

\* {"host_id": host_id, **host, "current_value": current_value}
annotated(host_id, host, current_value) ==
    [k \in {"host_id"} \cup DOMAIN host \cup {"current_value"} |->
        IF k = "current_value" THEN current_value
        ELSE IF k \in DOMAIN host THEN host[k]
        ELSE host_id]

\* one step of the stable sort: x goes behind every entry that is not smaller
RECURSIVE insert_desc(_, _)
insert_desc(sorted, x) ==
    IF sorted = <<>> THEN <<x>>
    ELSE IF Head(sorted).current_value >= x.current_value
         THEN <<Head(sorted)>> \o insert_desc(Tail(sorted), x)
         ELSE <<x>> \o sorted

\* sorted(results, key=lambda x: x["current_value"], reverse=True)
RECURSIVE sorted_desc(_)
sorted_desc(results) ==
    IF results = <<>> THEN <<>>
    ELSE insert_desc(sorted_desc(SubSeq(results, 1, Len(results) - 1)),
                     results[Len(results)])

get_hosts_by_condition(hosts, metric, operator, threshold) ==
    sorted_desc(Concat([i \in 1..Len(hosts) |->
        IF /\ metric \in DOMAIN Get(hosts[i][2], "metrics", EmptyDict)
           /\ condition_holds(hosts[i][2].metrics[metric], operator, threshold)
        THEN <<annotated(hosts[i][1], hosts[i][2], hosts[i][2].metrics[metric])>>
        ELSE <<>>]))

(***************************************************************************)
(* Specification of get_hosts_by_condition alone: txt holds the hosts of   *)
(* the snapshot and one step answers one query.                            *)
(***************************************************************************)

SnapshotIds == {"A", "B", "C", "D"}

SnapshotHosts ==
    {[name |-> "web", metrics |-> [cpu |-> 85]],
     [name |-> "db", metrics |-> [cpu |-> 60, memory |-> 85]],
     [name |-> "app", metrics |-> [cpu |-> 95]],
     [name |-> "new"]}

Snapshots ==
    UNION {{t \in [1..n -> SnapshotIds \X SnapshotHosts] : Injective([i \in 1..n |-> t[i][1]])} :
           n \in 0..MaxSnapshot}

Operators == {">", ">=", "<", "<=", "=", "!="}

Thresholds == {80, 85}

InitCondition ==
    /\ command_cache = EmptyDict
    /\ maintenance = EmptyDict
    /\ clock = 0
    /\ last = NoOp
    /\ txt \in Snapshots
    /\ env = NoKey
    /\ out = NotRun

ApplyCondition ==
    \E metric \in {"cpu", "memory"}, operator \in Operators, threshold \in Thresholds :
        /\ out = NotRun
        /\ out' = [fn |-> "get_hosts_by_condition", metric |-> metric, operator |-> operator,
                   threshold |-> threshold,
                   result |-> get_hosts_by_condition(txt, metric, operator, threshold)]
        /\ UNCHANGED <<command_cache, maintenance, clock, last, txt, env>>

NextCondition == ApplyCondition

SpecCondition == InitCondition /\ [][NextCondition]_vars

(***************************************************************************)
(* C15                                                                     *)
(***************************************************************************)

\* the comparison an operator of the claim stands for
Satisfies(value, operator, threshold) ==
    \/ operator = ">" /\ value > threshold
    \/ operator = ">=" /\ value >= threshold
    \/ operator = "<" /\ value < threshold
    \/ operator = "<=" /\ value <= threshold
    \/ operator = "=" /\ value = threshold

\* the positions of the snapshot's hosts that a query selects
Selected(hosts, metric, operator, threshold) ==
    {i \in DOMAIN hosts :
        /\ "metrics" \in DOMAIN hosts[i][2]
        /\ metric \in DOMAIN hosts[i][2].metrics
        /\ Satisfies(hosts[i][2].metrics[metric], operator, threshold)}

\* C15: get_hosts_by_condition(metric, operator, threshold) returns exactly
\* the hosts of the snapshot that have the metric and whose value satisfies
\* the operator (>, >=, <, <=, =), each once and annotated with its
\* current_value, in descending order of current_value; a host without the
\* metric is left out.
Thm_C15 ==
    (out.fn = "get_hosts_by_condition" /\ out.operator \in {">", ">=", "<", "<=", "="}) =>
        LET selected == Selected(txt, out.metric, out.operator, out.threshold)
        IN  /\ Len(out.result) = Cardinality(selected)
            /\ \A i \in selected :
                   \E j \in DOMAIN out.result :
                       /\ out.result[j].host_id = txt[i][1]
                       /\ out.result[j].current_value = txt[i][2].metrics[out.metric]
                       /\ \A k \in DOMAIN txt[i][2] : out.result[j][k] = txt[i][2][k]
            /\ \A j1, j2 \in DOMAIN out.result :
                   j1 < j2 => out.result[j1].current_value >= out.result[j2].current_value

\* the claim's example: A = 85, B = 60, C = 95 and cpu > 80 give [C, A]
Wit_C15 ==
    /\ out.fn = "get_hosts_by_condition"
    /\ txt = <<<<"A", [name |-> "web", metrics |-> [cpu |-> 85]]>>,
               <<"B", [name |-> "db", metrics |-> [cpu |-> 60, memory |-> 85]]>>,
               <<"C", [name |-> "app", metrics |-> [cpu |-> 95]]>>>>
    /\ out.metric = "cpu" /\ out.operator = ">" /\ out.threshold = 80
    /\ Len(out.result) = 2
    /\ out.result[1].host_id = "C" /\ out.result[1].current_value = 95
    /\ out.result[2].host_id = "A" /\ out.result[2].current_value = 85

(***************************************************************************)
(* get_hosts_by_status and get_server_status_summary                       *)
(***************************************************************************)

MaxAlerts == 2

\* {"host_id": host_id, **host, **extra}
with_fields(host_id, host, extra) ==
    [k \in {"host_id"} \cup DOMAIN host \cup DOMAIN extra |->
        IF k \in DOMAIN extra THEN extra[k]
        ELSE IF k \in DOMAIN host THEN host[k]
        ELSE host_id]

\* {a["host"]: a for a in alerts if a["severity"] == severity}: a later alert
\* of a host replaces an earlier one
alerts_by_host(alerts, severity) ==
    LET of(h) == {i \in DOMAIN alerts : alerts[i].host = h /\ alerts[i].severity = severity}
    IN  [h \in {alerts[i].host : i \in {j \in DOMAIN alerts : alerts[j].severity = severity}} |->
            alerts[CHOOSE i \in of(h) : \A j \in of(h) : j <= i]]

\* a fault: a host with a high alert is listed under "warning" as well
status_entry_overlapping(status, host_id, host, alert_hosts, warning_hosts) ==
    IF status = "error" /\ host_id \in DOMAIN alert_hosts
    THEN <<with_fields(host_id, host, [alert |-> alert_hosts[host_id]])>>
    ELSE IF status = "warning" /\ host_id \in DOMAIN warning_hosts
    THEN <<with_fields(host_id, host, [alert |-> warning_hosts[host_id]])>>
    ELSE IF /\ status = "ok"
            /\ host_id \notin DOMAIN alert_hosts /\ host_id \notin DOMAIN warning_hosts
    THEN <<with_fields(host_id, host, EmptyDict)>>
    ELSE IF status = "all"
    THEN <<with_fields(host_id, host,
               [status |-> IF host_id \in DOMAIN alert_hosts THEN "error"
                           ELSE IF host_id \in DOMAIN warning_hosts THEN "warning"
                           ELSE "ok"])>>
    ELSE <<>>

\* the if/elif chain of the loop: what one host adds to the results
status_entry(status, host_id, host, alert_hosts, warning_hosts) ==
    IF status = "error" /\ host_id \in DOMAIN alert_hosts
    THEN <<with_fields(host_id, host, [alert |-> alert_hosts[host_id]])>>
    ELSE IF /\ status = "warning"
            /\ host_id \in DOMAIN warning_hosts /\ host_id \notin DOMAIN alert_hosts
    THEN <<with_fields(host_id, host, [alert |-> warning_hosts[host_id]])>>
    ELSE IF /\ status = "ok"
            /\ host_id \notin DOMAIN alert_hosts /\ host_id \notin DOMAIN warning_hosts
    THEN <<with_fields(host_id, host, EmptyDict)>>
    ELSE IF status = "all"
    THEN <<with_fields(host_id, host,
               [status |-> IF host_id \in DOMAIN alert_hosts THEN "error"
                           ELSE IF host_id \in DOMAIN warning_hosts THEN "warning"
                           ELSE "ok"])>>
    ELSE <<>>

get_hosts_by_status(hosts, alerts, status) ==
    Concat([i \in 1..Len(hosts) |->
        status_entry(status, hosts[i][1], hosts[i][2],
                     alerts_by_host(alerts, "high"), alerts_by_host(alerts, "warning"))])

get_server_status_summary(hosts, alerts) ==
    LET alert_hosts   == {alerts[i].host : i \in {j \in DOMAIN alerts : alerts[j].severity = "high"}}
        warning_hosts == {alerts[i].host :
                             i \in {j \in DOMAIN alerts : alerts[j].severity = "warning"}}
        ids           == {hosts[i][1] : i \in DOMAIN hosts}
    IN  [ok      |-> Cardinality(ids \ (alert_hosts \cup warning_hosts)),
         warning |-> Cardinality((ids \cap warning_hosts) \ alert_hosts),
         error   |-> Cardinality(ids \cap alert_hosts),
         total   |-> Len(hosts)]

(***************************************************************************)
(* Specification of the status queries alone: txt holds the snapshot, and  *)
(* one step answers one query.                                             *)
(***************************************************************************)

Severities == {"high", "warning", "info"}

\* "Z" is a host the snapshot does not hold
Alerts == [host : {"A", "B", "Z"}, severity : Severities, message : {"m"}]

AlertLists == UNION {[1..n -> Alerts] : n \in 0..MaxAlerts}

StatusSnapshots ==
    {[hosts |-> hs, alerts |-> as] :
        hs \in {t \in Snapshots : \A i \in DOMAIN t : t[i][2].name = "web"}, as \in AlertLists}

InitStatus ==
    /\ command_cache = EmptyDict
    /\ maintenance = EmptyDict
    /\ clock = 0
    /\ last = NoOp
    /\ txt \in StatusSnapshots
    /\ env = NoKey
    /\ out = NotRun

ApplyStatus ==
    \E status \in {"error", "warning", "ok", "all", "unknown"} :
        /\ out = NotRun
        /\ out' = [fn |-> "get_hosts_by_status", status |-> status,
                   result |-> get_hosts_by_status(txt.hosts, txt.alerts, status)]
        /\ UNCHANGED <<command_cache, maintenance, clock, last, txt, env>>

ApplySummary ==
    /\ out = NotRun
    /\ out' = [fn |-> "get_server_status_summary",
               result |-> get_server_status_summary(txt.hosts, txt.alerts)]
    /\ UNCHANGED <<command_cache, maintenance, clock, last, txt, env>>

NextStatus == ApplyStatus \/ ApplySummary

SpecStatus == InitStatus /\ [][NextStatus]_vars

(***************************************************************************)
(* C16                                                                     *)
(***************************************************************************)

\* the status of a host: its worst alert severity
WorstStatus(alerts, host_id) ==
    IF \E i \in DOMAIN alerts : alerts[i].host = host_id /\ alerts[i].severity = "high"
    THEN "error"
    ELSE IF \E i \in DOMAIN alerts : alerts[i].host = host_id /\ alerts[i].severity = "warning"
    THEN "warning"
    ELSE "ok"

\* the positions of the snapshot's hosts that have a status
HostsWithStatus(status) ==
    {i \in DOMAIN txt.hosts : WorstStatus(txt.alerts, txt.hosts[i][1]) = status}

\* the positions of the snapshot's hosts that a result lists
Listed(result) ==
    {i \in DOMAIN txt.hosts : \E j \in DOMAIN result : result[j].host_id = txt.hosts[i][1]}

\* C16: the status of a host is its worst alert severity (error with a high
\* alert, else warning with a warning alert, else ok).  For every snapshot
\* get_hosts_by_status("error"), ("warning") and ("ok") list exactly the
\* hosts of that status, each once, so the three lists partition the hosts;
\* ("all") lists every host annotated with its status; and the counts of
\* get_server_status_summary agree with them: ok + warning + error = total.
Thm_C16 ==
    /\ (out.fn = "get_hosts_by_status" /\ out.status \in {"error", "warning", "ok"}) =>
           /\ Listed(out.result) = HostsWithStatus(out.status)
           /\ Len(out.result) = Cardinality(HostsWithStatus(out.status))
    /\ (out.fn = "get_hosts_by_status" /\ out.status = "all") =>
           /\ Len(out.result) = Len(txt.hosts)
           /\ \A i \in DOMAIN txt.hosts :
                  /\ out.result[i].host_id = txt.hosts[i][1]
                  /\ out.result[i].status = WorstStatus(txt.alerts, txt.hosts[i][1])
    /\ out.fn = "get_server_status_summary" =>
           /\ out.result.error = Cardinality(HostsWithStatus("error"))
           /\ out.result.warning = Cardinality(HostsWithStatus("warning"))
           /\ out.result.ok = Cardinality(HostsWithStatus("ok"))
           /\ out.result.total = Len(txt.hosts)
           /\ out.result.ok + out.result.warning + out.result.error = out.result.total

\* host A has a warning alert and a high alert, host B none: the "warning"
\* list is empty although A has a warning alert
Wit_C16 ==
    /\ out.fn = "get_hosts_by_status" /\ out.status = "warning"
    /\ Len(txt.hosts) = 2 /\ txt.hosts[1][1] = "A" /\ txt.hosts[2][1] = "B"
    /\ txt.alerts = <<[host |-> "A", severity |-> "warning", message |-> "m"],
                      [host |-> "A", severity |-> "high", message |-> "m"]>>
    /\ out.result = <<>>

(***************************************************************************)
(* Specification of sanitize_message alone: one step sanitizes the text    *)
(* and then sanitizes the text it returned.                                *)
(***************************************************************************)

\* "AKIA", sixteen digits, nine digits, "pass: ", "pw= ", "pw=", "password=",
\* "x", " ", "token "
SanitizeWords ==
    {<<"A", "K", "I", "A">>,
     <<"1", "2", "3", "4", "5", "6", "7", "8", "9", "0", "1", "2", "3", "4", "5", "6">>,
     <<"1", "2", "3", "4", "5", "6", "7", "8", "9">>,
     <<"p", "a", "s", "s", ":", " ">>,
     <<"p", "w", "=", " ">>,
     <<"p", "w", "=">>,
     <<"p", "a", "s", "s", "w", "o", "r", "d", "=">>,
     <<"x">>,
     <<" ">>,
     <<"t", "o", "k", "e", "n", " ">>}

SanitizeTexts == TextsOver(SanitizeWords, MaxLen)

InitSanitize ==
    /\ command_cache = EmptyDict
    /\ maintenance = EmptyDict
    /\ clock = 0
    /\ last = NoOp
    /\ txt \in SanitizeTexts
    /\ env = NoKey
    /\ out = NotRun

\* the second pass, over the text the first pass returned
sanitize_again(first) ==
    [fn |-> "sanitize_message", first |-> first, second |-> SanitizeFrom(1, first.text, {})]

ApplySanitize ==
    /\ out = NotRun
    /\ out' = sanitize_again(sanitize_message(txt))
    /\ UNCHANGED <<command_cache, maintenance, clock, last, txt, env>>

NextSanitize == ApplySanitize

SpecSanitize == InitSanitize /\ [][NextSanitize]_vars

(***************************************************************************)
(* C17                                                                     *)
(***************************************************************************)

\* C17: sanitize_message is idempotent: the second pass, over the text the
\* first pass returned, returns the same text and the same set of detected
\* categories as the first.
Cex_C17 ==
    out.fn = "sanitize_message" => out.second = out.first

(***************************************************************************)
(* C18                                                                     *)
(***************************************************************************)

PasswordKeywords ==
    {<<"p", "a", "s", "s", "w", "o", "r", "d">>, <<"p", "a", "s", "s", "w", "d">>,
     <<"p", "a", "s", "s">>, <<"p", "w">>}

\* the value of the password-style assignment whose keyword kw stands at i:
\* keyword, = or :, value, with optional blanks around the sign; <<>> when
\* there is no such assignment
AssignedValueAt(t, i, kw) ==
    IF ~LitAt(t, i, kw) THEN <<>>
    ELSE LET p == RunEnd(t, i + Len(kw), Space) + 1
         IN  IF p > Len(t) \/ t[p] \notin {"=", ":"} THEN <<>>
             ELSE SubSeq(t, RunEnd(t, p + 1, Space) + 1,
                         RunEnd(t, RunEnd(t, p + 1, Space) + 1, NonSpace))

AssignedValues(t) ==
    {AssignedValueAt(t, i, kw) : i \in 1..Len(t), kw \in PasswordKeywords} \ {<<>>}

\* the number of places at which lit stands in s
Occurrences(s, lit) ==
    Cardinality({i \in 1..(Len(s) - Len(lit) + 1) :
                    \A k \in 1..Len(lit) : s[i + k - 1] = lit[k]})

\* C18: for every text that contains a password-style assignment,
\* sanitize_message reports the password category and the returned text
\* contains no occurrence of the assigned value, whatever other rules match.
\* (Checked for the values the text holds at one place only, so that a value
\* the user wrote again elsewhere does not count.)
Cex_C18 ==
    (out.fn = "sanitize_message" /\ AssignedValues(txt) # {}) =>
        /\ "cat_password" \in out.first.detected
        /\ \A v \in AssignedValues(txt) :
               Occurrences(txt, v) = 1 => ~Contains(out.first.text, v)

(***************************************************************************)
(* The dispatcher of process_message (the part after the intent is         *)
(* resolved), with the types of the values a JSON object can hold.  A      *)
(* value is [type, s, n]: a string s, an integer n, null, a list, or       *)
(* "absent" for a key the object does not hold.  The parameters are        *)
(* [type, d]: a dict d of such values, or a value of another type.         *)
(***************************************************************************)

JStr(s) == [type |-> "str", s |-> s, n |-> 0]

JInt(n) == [type |-> "int", s |-> "", n |-> n]

JNull == [type |-> "null", s |-> "", n |-> 0]

JList == [type |-> "list", s |-> "", n |-> 0]

Absent == [type |-> "absent", s |-> "", n |-> 0]

ParamKeys == {"host_id", "duration_minutes", "metric", "operator", "value", "hours"}

\* params.get(key, default), for params that are a dict
PGet(params, key, default) ==
    IF params.d[key].type = "absent" THEN default ELSE params.d[key]

\* a list cannot be a dict key or be looked up in a dict
Hashable(v) == v.type # "list"

\* the handler raised an exception: process_message returns nothing
Raise(kind) == [raised |-> kind, message |-> "none"]

\* the handler set result["message"]
Reply(message) == [raised |-> "none", message |-> message]

\* lines 849-860
reply_generate_config(data) ==
    IF data.topology = <<>> THEN Reply("no_topology") ELSE Reply("config_generated")

\* lines 862-880: params.get, timedelta(minutes=duration), maintenance[host_id]
reply_set_maintenance(params) ==
    IF params.type # "dict" THEN Raise("AttributeError")
    ELSE IF PGet(params, "duration_minutes", JInt(60)).type # "int" THEN Raise("TypeError")
    ELSE IF ~Hashable(PGet(params, "host_id", JStr("unknown_host"))) THEN Raise("TypeError")
    ELSE Reply("maintenance_set")

\* get_hosts_by_condition raises: metric in host.get("metrics", {}) with a
\* metric that cannot be hashed, or an order comparison of a number with a
\* threshold that is not a number
condition_raises(hosts, metric, operator, value) ==
    /\ hosts # <<>>
    /\ \/ ~Hashable(metric)
       \/ /\ metric.type = "str"
          /\ \E i \in DOMAIN hosts : metric.s \in DOMAIN Get(hosts[i][2], "metrics", EmptyDict)
          /\ operator.type = "str" /\ operator.s \in {">", ">=", "<", "<="}
          /\ value.type # "int"

\* the hosts get_hosts_by_condition returns when it does not raise
condition_hosts(hosts, metric, operator, value) ==
    IF metric.type = "str" /\ operator.type = "str" /\ value.type = "int"
    THEN get_hosts_by_condition(hosts, metric.s, operator.s, value.n)
    ELSE <<>>

\* lines 882-894
search_hosts_reply(hosts, metric, operator, value) ==
    IF condition_raises(hosts, metric, operator, value) THEN Raise("TypeError")
    ELSE IF condition_hosts(hosts, metric, operator, value) # <<>> THEN Reply("hosts_found")
    ELSE Reply("no_hosts")

reply_search_hosts(params, data) ==
    IF params.type # "dict" THEN Raise("AttributeError")
    ELSE search_hosts_reply(data.hosts, PGet(params, "metric", JStr("cpu")),
                            PGet(params, "operator", JStr(">")), PGet(params, "value", JInt(80)))

\* get_host_metrics: the metrics of the host, {} for a host the snapshot
\* does not hold
get_host_metrics(hosts, host_id) ==
    IF host_id.type = "str" /\ \E i \in DOMAIN hosts : hosts[i][1] = host_id.s
    THEN Get(hosts[CHOOSE i \in DOMAIN hosts : hosts[i][1] = host_id.s][2], "metrics", EmptyDict)
    ELSE EmptyDict

\* lines 896-910
reply_get_metrics(params, data) ==
    IF params.type # "dict" THEN Raise("AttributeError")
    ELSE IF ~Hashable(PGet(params, "host_id", JNull)) THEN Raise("TypeError")
    ELSE IF get_host_metrics(data.hosts, PGet(params, "host_id", JNull)) # EmptyDict
    THEN Reply("metrics_shown")
    ELSE Reply("host_not_found")

\* lines 912-923
reply_get_alerts(data) ==
    IF data.alerts # <<>> THEN Reply("alerts_listed") ELSE Reply("no_alerts")

\* lines 925-939 with generate_metrics_history: two dict lookups, then
\* range(hours * 6), which is empty when hours is not positive
reply_show_graph(params) ==
    IF params.type # "dict" THEN Raise("AttributeError")
    ELSE IF ~Hashable(PGet(params, "host_id", JStr("WAN_ROUTER_01"))) THEN Raise("TypeError")
    ELSE IF ~Hashable(PGet(params, "metric", JStr("cpu"))) THEN Raise("TypeError")
    ELSE IF PGet(params, "hours", JInt(24)).type # "int" THEN Raise("TypeError")
    ELSE IF PGet(params, "hours", JInt(24)).n > 0 THEN Reply("graph_shown")
    ELSE Reply("no_graph_data")

\* lines 844-954: the if/elif chain over the action
process_message_result(response, data) ==
    IF response.action.type # "str" THEN Reply("suggestion")
    ELSE IF response.action.s = "generate_config" THEN reply_generate_config(data)
    ELSE IF response.action.s = "set_maintenance" THEN reply_set_maintenance(response.parameters)
    ELSE IF response.action.s = "search_hosts" THEN reply_search_hosts(response.parameters, data)
    ELSE IF response.action.s = "get_metrics" THEN reply_get_metrics(response.parameters, data)
    ELSE IF response.action.s = "get_alerts" THEN reply_get_alerts(data)
    ELSE IF response.action.s = "show_graph" THEN reply_show_graph(response.parameters)
    ELSE IF response.action.s = "show_server_info" THEN Reply("open_dialog")
    ELSE Reply("suggestion")

(***************************************************************************)
(* Specification of the dispatcher alone: txt holds the resolved intent    *)
(* and the data the handlers read, and one step dispatches it.             *)
(***************************************************************************)

\* the action of an intent: a known action, another string, a number, or no
\* action key
ActionValues ==
    {JStr(a) : a \in KnownActions \cup {"unknown", "restart_host"}} \cup {JInt(1), Absent}

\* the parameters of an intent: dicts of the local matcher's shapes and of
\* other value types, and values that are not a dict
ParamValues ==
    {[type |-> "dict", d |-> d] : d \in
        [host_id          : {Absent, JStr("A"), JStr("B"), JStr("Z"), JList},
         duration_minutes : {Absent, JInt(30), JStr("30")},
         metric           : {Absent, JStr("memory"), JList},
         operator         : {Absent, JStr("=")},
         value            : {Absent, JInt(90), JStr("90")},
         hours            : {Absent, JInt(0), JInt(1), JStr("1")}]}
    \cup {[type |-> ty, d |-> [k \in ParamKeys |-> Absent]] : ty \in {"str", "null", "list", "int"}}

\* no data at all, and a snapshot where host A has metrics and host B none
DataCases ==
    {[topology |-> <<>>, hosts |-> <<>>, alerts |-> <<>>],
     [topology |-> <<<<"CORE_01", [layer |-> 1, type |-> "ROUTER"]>>>>,
      hosts    |-> <<<<"A", [name |-> "web", metrics |-> [cpu |-> 85, memory |-> 70]]>>,
                     <<"B", [name |-> "new"]>>>>,
      alerts   |-> <<[host |-> "A", severity |-> "high", message |-> "m"]>>]}

InitDispatch ==
    /\ command_cache = EmptyDict
    /\ maintenance = EmptyDict
    /\ clock = 0
    /\ last = NoOp
    /\ txt \in [response : [action : ActionValues, parameters : ParamValues], data : DataCases]
    /\ env = NoKey
    /\ out = NotRun

ApplyDispatch ==
    /\ out = NotRun
    /\ out' = [fn |-> "process_message", result |-> process_message_result(txt.response, txt.data)]
    /\ UNCHANGED <<command_cache, maintenance, clock, last, txt, env>>

NextDispatch == ApplyDispatch

SpecDispatch == InitDispatch /\ [][NextDispatch]_vars

(***************************************************************************)
(* C19                                                                     *)
(***************************************************************************)

\* C19: for every intent handed to the dispatcher (a local-matcher result or
\* a remote JSON object whose action and parameters have any value or type)
\* and for every data-absence case (empty topology, unknown host id, host
\* without metrics, no alerts), process_message completes and returns a
\* result that carries a message: it never aborts with an exception.
Cex_C19 ==
    out.fn = "process_message" =>
        /\ out.result.raised = "none"
        /\ out.result.message # "none"

(***************************************************************************)
(* C20                                                                     *)
(***************************************************************************)

\* the host a turn's intent names, and the minutes it asks for
TurnHost(response) == Get(Get(response, "parameters", EmptyDict), "host_id", UNKNOWN_HOST)

TurnMinutes(response) == Get(Get(response, "parameters", EmptyDict), "duration_minutes", 60)

\* C20: the maintenance map holds one window per host_id: a set_maintenance
\* turn, resolved fresh or replayed from the cache, replaces the window of
\* its host with one that starts now and ends duration minutes later, leaves
\* the window of every other host unchanged, and leaves the command cache
\* entries of other texts unchanged.
Thm_C20 ==
    [][(last'.op = "process_message" /\ last'.branch = "set_maintenance")
       => /\ DOMAIN maintenance' = DOMAIN maintenance \cup {TurnHost(last'.response)}
          /\ maintenance'[TurnHost(last'.response)].start = clock
          /\ maintenance'[TurnHost(last'.response)].duration = TurnMinutes(last'.response)
          /\ maintenance'[TurnHost(last'.response)].end
                 = maintenance'[TurnHost(last'.response)].start + TurnMinutes(last'.response)
          /\ \A h \in DOMAIN maintenance :
                 h # TurnHost(last'.response) => maintenance'[h] = maintenance[h]
          /\ \A k \in DOMAIN command_cache' :
                 k # <<"md5", Norm(last'.raw)>>
                     => k \in DOMAIN command_cache /\ command_cache'[k] = command_cache[k]
          /\ DOMAIN command_cache \subseteq DOMAIN command_cache']_vars

\* the third turn replayed "<maintenance> SW" from the cache: the window of
\* SW, set in the second turn, now starts at 2 and ends 60 minutes later,
\* and the window FW got in the first turn is as it was
Wit_C20 ==
    /\ last.op = "process_message" /\ last.branch = "set_maintenance" /\ last.cached
    /\ last.raw = <<"ja_maintenance", " ", "S", "W">>
    /\ clock = 3
    /\ DOMAIN maintenance = {<<"S", "W">>, <<"F", "W">>}
    /\ maintenance[<<"S", "W">>] = [start |-> 2, end |-> 62, duration |-> 60]
    /\ maintenance[<<"F", "W">>] = [start |-> 0, end |-> 60, duration |-> 60]
    /\ Cardinality(DOMAIN command_cache) = 2

(***************************************************************************)
(* C21                                                                     *)
(***************************************************************************)

\* the rules that found a match when their turn came, from rule k on
RECURSIVE FiredRules(_, _)
FiredRules(k, sanitized) ==
    IF k > Len(SENSITIVE_PATTERNS) THEN {}
    ELSE IF Search(SENSITIVE_PATTERNS[k], sanitized)
         THEN {k} \cup FiredRules(k + 1, Sub(SENSITIVE_PATTERNS[k], sanitized))
         ELSE FiredRules(k + 1, sanitized)

\* the kind of secret each rule of the list covers, in the order of the list
CoveredKind ==
    <<"cat_password", "cat_password", "cat_api_token", "cat_api_token", "cat_credential",
      "cat_card", "cat_ssn", "cat_mynumber", "cat_credential", "cat_aws", "cat_aws",
      "cat_private_key", "cat_db">>

\* C21: sanitize_message reports exactly the categories of the rules that
\* redacted something, each rule under the category of the kind of secret it
\* covers and each category once; a redacted AWS access-key id or AWS secret
\* access key is reported under the AWS category.
Cex_C21 ==
    out.fn = "sanitize_message" =>
        out.first.detected = {CoveredKind[k] : k \in FiredRules(1, txt)}

(***************************************************************************)
(* C22                                                                     *)
(***************************************************************************)

\* the positions of the well-formed JSON objects in a reply text
ObjectsIn(text) == {i \in 1..Len(text) : text[i].seg = "obj"}

\* C22: when the reply text holds a well-formed JSON object, with prose
\* around it and with prose or further objects that hold braces after it,
\* call_gemini returns the first such object as the intent; the local
\* fallback is used only when the text holds no object that can be parsed.
Cex_C22 ==
    (out.fn = "call_gemini" /\ env.has_key /\ env.outcome = "ok") =>
        IF ObjectsIn(env.text) # {}
        THEN /\ out.result.mock_calls = 0
             /\ out.result.response = env.text[Min(ObjectsIn(env.text))].obj
        ELSE out.result.mock_calls = 1

(***************************************************************************)
(* C23                                                                     *)
(***************************************************************************)

\* a group name as a pair of strings
GroupKey(name) ==
    <<name[1], IF name[1] = "Network/Layer" THEN DigitSeq[name[2] + 1] ELSE name[2]>>

\* the groups a configuration declares
DeclaredGroups(config) ==
    {GroupKey(config.host_groups[i].name) : i \in DOMAIN config.host_groups}

\* the groups the hosts of a configuration are members of
MemberGroups(config) ==
    UNION {{GroupKey(config.hosts[i].groups[j]) : j \in DOMAIN config.hosts[i].groups} :
           i \in DOMAIN config.hosts}

\* C23: in every configuration generate_zabbix_config produces, every group
\* in a host's groups is declared in host_groups, and every declared host
\* group has at least one member host, for all shapes of node, a vendor that
\* is present but empty and a vendor equal to "default" included.
Cex_C23 ==
    out.fn = "generate_zabbix_config" =>
        /\ MemberGroups(out.result) \subseteq DeclaredGroups(out.result)
        /\ DeclaredGroups(out.result) \subseteq MemberGroups(out.result)

(***************************************************************************)
(* Specification of one turn on the messages of the graph dialog, with no  *)
(* API key: txt holds the message, and the one step is the turn.           *)
(***************************************************************************)

\* "CORE_SW_01<no>"
GraphHost == <<"C", "O", "R", "E", "_", "S", "W", "_", "0", "1", "ja_no">>

\* "<suii><wo><graph><de>"
GraphTail == <<"ja_suii", "ja_wo", "ja_graph", "ja_de">>

\* the metrics the graph dialog offers, and the help example's "CPU"
GraphMetrics ==
    {<<"c", "p", "u">>, <<"m", "e", "m", "o", "r", "y">>, <<"d", "i", "s", "k">>,
     <<"C", "P", "U">>}

GraphWords == {GraphHost, GraphTail, <<"ja_memory">>, <<" ">>, <<"x">>} \cup GraphMetrics

GraphTexts == TextsOver(GraphWords, MaxLen)

InitGraph ==
    /\ command_cache = EmptyDict
    /\ maintenance = EmptyDict
    /\ clock = 0
    /\ last = NoOp
    /\ txt \in GraphTexts
    /\ env = NoKey
    /\ out = NotRun

ProcessGraph ==
    /\ last = NoOp
    /\ Turn(process_message(command_cache, maintenance, clock, txt, env))
    /\ clock' = clock + 1
    /\ UNCHANGED <<txt, env, out>>

NextGraph == ProcessGraph

SpecGraph == InitGraph /\ [][NextGraph]_vars

(***************************************************************************)
(* C24                                                                     *)
(***************************************************************************)

\* C24: with no remote classifier, the message the graph dialog submits
\* ("<host><no><metric><suii><wo><graph><de>" with metric cpu, memory or
\* disk) and the help example with "CPU" resolve through process_message to
\* show_graph for that host, with metric memory when the message names
\* memory and cpu otherwise.
Cex_C24 ==
    (last.op = "process_message" /\ \E m \in GraphMetrics : txt = GraphHost \o m \o GraphTail) =>
        /\ last.branch = "show_graph"
        /\ last.response.action = "show_graph"
        /\ last.response.parameters.host_id = SubSeq(GraphHost, 1, Len(GraphHost) - 1)
        /\ last.response.parameters.metric =
               IF Contains(txt, <<"m", "e", "m", "o", "r", "y">>) THEN "memory" ELSE "cpu"

(***************************************************************************)
(* C25                                                                     *)
(***************************************************************************)

\* C25: a turn answered with the suggestion for an intent that was not
\* recognized creates or changes no cache entry: in every reachable state of
\* the session each cached command has one of the seven known actions,
\* whatever JSON object the remote classifier returned.
Cex_C25 ==
    \A k \in DOMAIN command_cache :
        /\ "action" \in DOMAIN command_cache[k].command
        /\ command_cache[k].command.action \in KnownActions

====
